---- MODULE Spec2Model ----
(***************************************************************************)
(* A model of the ynab-toolkit reconciliation core:                        *)
(*   - process_transactions.py: order-history index, shipment matcher,     *)
(*     proportional allocation, transaction builder, transaction cache,    *)
(*     batch submission and retrieve_batch_results;                        *)
(*   - sync_to_ynab.py: sync_transactions against the ledger;              *)
(*   - main.py / api_writer.py: the email pipeline and its create-only     *)
(*     claim of an email;                                                  *)
(*   - utils.py, batch_categorize_items, categorizer.py: the category      *)
(*     cache, the chunked classifier calls, the amounts categorize_order   *)
(*     assigns, the correction replies;                                    *)
(*   - ynab_writer.py: the retries of a write request.                     *)
(* Money is counted in cents (Decimal arithmetic in the source is exact),  *)
(* dates are day numbers, 0 standing for "no date" (None).                 *)
(***************************************************************************)
EXTENDS Integers, Sequences, FiniteSets, TLC

VARIABLES
    \* ---- shipment matcher applied to one charge (pure part of main) ----
    m_hist,        \* raw order-history rows of one order
    m_charge,      \* the bank charge [date, amount]
    m_out,         \* result of matching and allocation, or NotRun
    \* ---- process_transactions.main ----
    pc,            \* "pass1", "pass2", "done"
    run,           \* number of the current run over the same input
    batch,         \* args.batch
    rows,          \* the input CSV rows read so far (fixed once run 1 ended)
    rowIdx,        \* rows already handled by the current run
    cache_file,    \* the cache file on disk: [exists, transactions, synced]
    cache,         \* cache["transactions"] in memory
    loaded,        \* cache["transactions"] as load_cache returned it
    existing_ids,  \* import ids of the loaded cache
    pending_txns,  \* transactions waiting for categorization
    stats,         \* processed / not_found / cached / grocery counters
    saved,         \* whether the current run called save_cache
    prev_saved,    \* whether the previous run called save_cache
    category_cache, \* utils._category_cache: item name -> category
    pending_batches, \* the batch tracking file: [batch_id, items]
    \* ---- sync_to_ynab.sync_transactions and the ledger (YNAB) ----
    y_ledger,      \* the transactions of the account, in the order of the API
    s_pc,          \* "idle", "update", "create", "done"
    s_run,         \* number of the current sync run
    dry_run,       \* the dry_run argument of the current run
    synced,        \* the set of synced import ids, in memory
    to_create,     \* transactions collected for creation
    to_update,     \* (txn, transaction_id, subtransactions) to update
    create_idx,    \* transactions of to_create already sent
    s_stats,       \* created / updated / skipped / duplicate / failed
    s_trace,       \* history: what the runs did (requests, failures)
    \* ---- main.py: concurrent invocations of the email pipeline ----
    processed_emails, \* ids of the documents of collection processed_emails
    e_ledger,      \* the budget's transactions, as the pipeline sees them
    e_inv,         \* per invocation: [email, pc, claim, status, writes, txn]
    \* ---- batch_categorize_items called on its own ----
    cat_pc,        \* "idle", "chunks", "done"
    cat_items,     \* the all_items argument of the call
    cat_cache0,    \* the category cache as the call found it
    cat_st,        \* results, all_item_list, requests sent, unmatched, errors
    cat_k,         \* number of the next chunk
    cat_calls,     \* calls started so far
    \* ---- main.py / categorizer.py: orders and correction replies ----
    o_ledger,      \* the split transactions the pipeline wrote
    o_runs,        \* history: what each categorize_order asked and returned
    o_replies      \* correction replies handled so far

vars == <<m_hist, m_charge, m_out, pc, run, batch, rows, rowIdx, cache_file,
          cache, loaded, existing_ids, pending_txns, stats, saved, prev_saved,
          category_cache, pending_batches, y_ledger, s_pc, s_run, dry_run,
          synced, to_create,
          to_update, create_idx, s_stats, s_trace, processed_emails,
          e_ledger, e_inv, cat_pc, cat_items, cat_cache0, cat_st, cat_k,
          cat_calls, o_ledger, o_runs, o_replies>>

matchVars == <<m_hist, m_charge, m_out>>
mainVars == <<pc, run, batch, rows, rowIdx, cache_file, cache, loaded,
              existing_ids, pending_txns, stats, saved, prev_saved,
              category_cache, pending_batches>>
\* The state of process_transactions.main apart from the cache file.
runVars == <<pc, run, batch, rows, rowIdx, cache, loaded, existing_ids,
             pending_txns, stats, saved, prev_saved, category_cache,
             pending_batches>>
syncVars == <<y_ledger, s_pc, s_run, dry_run, synced, to_create, to_update,
              create_idx, s_stats, s_trace>>
emailVars == <<processed_emails, e_ledger, e_inv>>
catVars == <<cat_pc, cat_items, cat_cache0, cat_st, cat_k, cat_calls>>
orderVars == <<o_ledger, o_runs, o_replies>>
\* The state of process_transactions.main apart from the category cache.
txnVars == <<pc, run, batch, rows, rowIdx, cache_file, cache, loaded,
             existing_ids, pending_txns, stats, saved, prev_saved, pending_batches>>

-----------------------------------------------------------------------------
(* Generic helpers *)

Abs(x) == IF x < 0 THEN -x ELSE x

RECURSIVE SumSeq(_)
SumSeq(s) == IF s = <<>> THEN 0 ELSE Head(s) + SumSeq(Tail(s))

\* The sequence <<f(s[1]), ..., f(s[n])>> of one field of a sequence of records.
Totals(s) == [i \in 1..Len(s) |-> s[i].total]
Amounts(s) == [i \in 1..Len(s) |-> s[i].amount]

NoDate == 0

-----------------------------------------------------------------------------
(* load_order_history: raw item rows -> order_id -> {shipments, items,     *)
(* is_grocery}.  A raw row is [order_id, name, total, ship_date, quantity, *)
(* grocery], grocery standing for "Shipping Option is one of               *)
(* GROCERY_SHIPPING_OPTIONS".                                              *)

\* order_items[order_id]: the rows of one order, in file order.
order_items(all_items, order_id) ==
    SelectSeq(all_items, LAMBDA r : r.order_id = order_id)

\* The ship keys of an order in order of first appearance (defaultdict order).
RECURSIVE ship_keys(_, _)
ship_keys(items, seen) ==
    IF items = <<>> THEN <<>>
    ELSE IF Head(items).ship_date \in seen
         THEN ship_keys(Tail(items), seen)
         ELSE <<Head(items).ship_date>>
              \o ship_keys(Tail(items), seen \cup {Head(items).ship_date})

\* One shipment: the rows of the order that share the ship key.
make_shipment(items, key) ==
    LET group_items == SelectSeq(items, LAMBDA r : r.ship_date = key)
    IN [ship_date  |-> key,
        total      |-> SumSeq(Totals(group_items)),
        items      |-> [i \in 1..Len(group_items) |->
                          [name  |-> group_items[i].name,
                           total |-> group_items[i].total,
                           qty   |-> group_items[i].quantity]],
        is_grocery |-> \A i \in 1..Len(group_items) : group_items[i].grocery]

\* s["ship_date"] or datetime.max.date(): shipments without date sort last.
sort_before(a, b) ==
    /\ a.ship_date # NoDate
    /\ (b.ship_date = NoDate \/ a.ship_date < b.ship_date)

\* list.sort is stable: x goes after every element that does not sort after it.
RECURSIVE insert_sorted(_, _)
insert_sorted(sorted, x) ==
    IF sorted = <<>> THEN <<x>>
    ELSE IF sort_before(x, Head(sorted))
         THEN <<x>> \o sorted
         ELSE <<Head(sorted)>> \o insert_sorted(Tail(sorted), x)

RECURSIVE sort_shipments(_)
sort_shipments(s) ==
    IF s = <<>> THEN <<>>
    ELSE insert_sorted(sort_shipments(SubSeq(s, 1, Len(s) - 1)), s[Len(s)])

order_entry(all_items, order_id) ==
    LET items == order_items(all_items, order_id)
        keys == ship_keys(items, {})
        shipments == sort_shipments([i \in 1..Len(keys) |->
                                        make_shipment(items, keys[i])])
    IN [shipments  |-> shipments,
        items      |-> [i \in 1..Len(items) |->
                          [name |-> items[i].name, total |-> items[i].total]],
        is_grocery |-> IF shipments = <<>> THEN FALSE
                       ELSE \A i \in 1..Len(shipments) : shipments[i].is_grocery]

\* The orders dict: rows without an Order ID are skipped.
load_order_history(all_items) ==
    LET ids == {all_items[i].order_id : i \in 1..Len(all_items)} \ {""}
    IN [o \in ids |-> order_entry(all_items, o)]

-----------------------------------------------------------------------------
(* The shipment matcher of main (pass 1), strategy by strategy.  A shipment *)
(* or an item is named by its index; 0 stands for None.                     *)

DateWindowDays == 7
InitialBestDays == 999
AmountTolerance == 100
InitialBestDiff == 99999900

\* Mutant of date_proximity: the first shipment in the window is kept, the
\* comparison with best_days_diff is lost.
RECURSIVE date_proximity_first(_, _, _, _, _)
date_proximity_first(charge_date, shipments, i, best_match, best_days_diff) ==
    IF i > Len(shipments) THEN best_match
    ELSE LET days_diff == charge_date - shipments[i].ship_date
         IN IF /\ shipments[i].ship_date # NoDate
               /\ 0 <= days_diff
               /\ days_diff <= DateWindowDays
               /\ best_match = 0
            THEN date_proximity_first(charge_date, shipments, i + 1,
                                      i, days_diff)
            ELSE date_proximity_first(charge_date, shipments, i + 1,
                                      best_match, best_days_diff)

\* Strategy 1: the loop over shipments keeping best_match / best_days_diff.
RECURSIVE date_proximity(_, _, _, _, _)
date_proximity(charge_date, shipments, i, best_match, best_days_diff) ==
    IF i > Len(shipments) THEN best_match
    ELSE LET days_diff == charge_date - shipments[i].ship_date
         IN IF /\ shipments[i].ship_date # NoDate
               /\ 0 <= days_diff
               /\ days_diff <= DateWindowDays
               /\ days_diff < best_days_diff
            THEN date_proximity(charge_date, shipments, i + 1, i, days_diff)
            ELSE date_proximity(charge_date, shipments, i + 1,
                                best_match, best_days_diff)

\* Strategies 2 and 3: the first element whose total is within $1.00.
RECURSIVE first_within(_, _, _)
first_within(abs_amount, elems, i) ==
    IF i > Len(elems) THEN 0
    ELSE IF Abs(elems[i].total - abs_amount) < AmountTolerance THEN i
    ELSE first_within(abs_amount, elems, i + 1)

\* Strategy 4: the loop keeping best_diff, which starts at Decimal("999999").
RECURSIVE best_fit(_, _, _, _, _)
best_fit(abs_amount, shipments, i, matched, best_diff) ==
    IF i > Len(shipments) THEN matched
    ELSE LET diff == Abs(shipments[i].total - abs_amount)
         IN IF diff < best_diff
            THEN best_fit(abs_amount, shipments, i + 1, i, diff)
            ELSE best_fit(abs_amount, shipments, i + 1, matched, best_diff)

\* Mutant of match_shipment: the amount match is tried before the dates.
match_shipment_amount_first(charge_date, amount, order_data) ==
    LET shipments == order_data.shipments
        abs_amount == Abs(amount)
        s2 == first_within(abs_amount, shipments, 1)
        s1 == IF s2 = 0 /\ charge_date # NoDate
              THEN date_proximity(charge_date, shipments, 1, 0, InitialBestDays)
              ELSE s2
        i3 == IF s1 = 0 THEN first_within(abs_amount, order_data.items, 1) ELSE 0
        s4 == IF s1 = 0 /\ i3 = 0
              THEN best_fit(abs_amount, shipments, 1, 0, InitialBestDiff)
              ELSE s1
    IN [best_match |-> IF s2 = 0 THEN s1 ELSE 0,
        matched_shipment |-> s4, matched_item |-> i3]

\* The four strategies in the order main runs them.
match_shipment(charge_date, amount, order_data) ==
    LET shipments == order_data.shipments
        abs_amount == Abs(amount)
        s1 == IF charge_date # NoDate
              THEN date_proximity(charge_date, shipments, 1, 0, InitialBestDays)
              ELSE 0
        s2 == IF s1 = 0 THEN first_within(abs_amount, shipments, 1) ELSE s1
        i3 == IF s2 = 0 THEN first_within(abs_amount, order_data.items, 1) ELSE 0
        s4 == IF s2 = 0 /\ i3 = 0
              THEN best_fit(abs_amount, shipments, 1, 0, InitialBestDiff)
              ELSE s2
    IN [best_match |-> s1, matched_shipment |-> s4, matched_item |-> i3]

\* round(x, 2) of x = n/d cents.  The source rounds a binary float, so which
\* way an exact half goes depends on the representation error: up is either.
round_cents(n, d, up) ==
    LET q == n \div d
        r == n % d
    IN IF 2 * r < d THEN q
       ELSE IF 2 * r > d THEN q + 1
       ELSE IF up THEN q + 1 ELSE q

\* f"{qty} x {name}" if qty > 1 else name: prefix 0 stands for no prefix.
display_name(qty, name) == [prefix |-> IF qty > 1 THEN qty ELSE 0, name |-> name]

\* Mutant of allocate: the ratio is applied to the price of one unit.
allocate_per_unit(charge_amount, shipment, ups) ==
    [i \in 1..Len(shipment.items) |->
        LET item == shipment.items[i]
        IN [name           |-> display_name(item.qty, item.name),
            base_name      |-> item.name,
            amount         |-> round_cents((item.total \div item.qty) * charge_amount,
                                           shipment.total, ups[i]),
            original_total |-> item.total,
            qty            |-> item.qty]]

\* Proportional allocation over the items of the matched shipment.
allocate(charge_amount, shipment, ups) ==
    [i \in 1..Len(shipment.items) |->
        LET item == shipment.items[i]
        IN [name           |-> display_name(item.qty, item.name),
            base_name      |-> item.name,
            amount         |-> round_cents(item.total * charge_amount,
                                           shipment.total, ups[i]),
            original_total |-> item.total,
            qty            |-> item.qty]]

\* matched_items_with_amounts as main leaves it before the flag check;
\* <<>> stands for None.
matched_items_with_amounts(amount, order_data, m, ups) ==
    IF m.matched_item # 0
    THEN LET item == order_data.items[m.matched_item]
         IN <<[name |-> display_name(1, item.name), base_name |-> item.name,
               amount |-> amount, original_total |-> item.total, qty |-> 1]>>
    ELSE IF m.matched_shipment # 0
              /\ order_data.shipments[m.matched_shipment].total > 0
    THEN allocate(Abs(amount), order_data.shipments[m.matched_shipment], ups)
    ELSE <<>>

-----------------------------------------------------------------------------
(* utils.py helpers.  A payee is modelled by the set of the keywords its    *)
(* lower-cased text contains; a memo by the order id the pattern            *)
(* ORDER_ID_PATTERN finds in it ("" when it finds none).                    *)

is_amazon_transaction(payee) == payee \cap {"amazon", "amzn"} # {}

is_grocery_transaction(payee) ==
    payee \cap {"amazon fresh", "whole foods", "amazon groce"} # {}

extract_order_id(memo) == memo.order

-----------------------------------------------------------------------------
(* Pass 1 of main for one CSV row.  A row is [payee, memo, inflow, outflow, *)
(* date]; an amount cell is [k, cents] with k "empty" (blank cell), "bad"   *)
(* (Decimal raises InvalidOperation) or "num".                              *)

\* The Decimal amount of the row: inflow positive, outflow negative.
parse_amount(row) ==
    IF row.inflow.k # "empty"
    THEN [ok |-> row.inflow.k = "num", amount |-> row.inflow.cents]
    ELSE IF row.outflow.k # "empty"
    THEN [ok |-> row.outflow.k = "num", amount |-> 0 - row.outflow.cents]
    ELSE [ok |-> FALSE, amount |-> 0]

\* Mutant of make_import_id: the charge date is made part of the key.
make_import_id_with_date(order_id, amount, row) ==
    <<"AMZ2", order_id, Abs(amount),
      IF row.inflow.k # "empty" THEN "R" ELSE "P", row.date>>

\* f"AMZ2:{order_id}:{amount_cents}:{direction}"
make_import_id(order_id, amount, row) ==
    <<"AMZ2", order_id, Abs(amount),
      IF row.inflow.k # "empty" THEN "R" ELSE "P">>

order_memo(order_id, suffix) == [order |-> order_id, text |-> suffix]

\* The txn dict main builds before looking the order up.
new_txn(row, order_id, amount) ==
    [import_id  |-> make_import_id(order_id, amount, row),
     date       |-> row.date,
     order_id   |-> order_id,
     amount     |-> amount,
     payee      |-> IF "whole foods" \in row.payee THEN "Whole Foods"
                    ELSE IF is_grocery_transaction(row.payee) THEN "Amazon Fresh"
                    ELSE "Amazon.com",
     memo       |-> order_memo(order_id, ""),
     is_refund  |-> row.inflow.k # "empty",
     is_grocery |-> is_grocery_transaction(row.payee),
     flag       |-> "yellow",
     splits     |-> <<>>,
     items      |-> <<>>,
     items_with_amounts |-> <<>>,
     all_items  |-> <<>>,
     grocery_items |-> <<>>]

\* Mutant of signed: every split is booked as an outflow.
signed_outflow(txn, abs_amount) == 0 - abs_amount

\* "For purchases, amount should be negative; for refunds, positive".
signed(txn, abs_amount) == IF txn.is_refund THEN abs_amount ELSE 0 - abs_amount

item_names(items) == [i \in 1..Len(items) |-> items[i].name]

tip_txn(txn) ==
    [txn EXCEPT !.memo = [order |-> "", text |-> "Delivery Tip"],
                !.splits = <<[category |-> "Delivery Fee",
                              amount   |-> signed(txn, Abs(txn.amount)),
                              memo     |-> "Delivery Tip",
                              items    |-> <<>>]>>]

not_found_txn(txn) ==
    [txn EXCEPT !.flag = "blue",
                !.memo = order_memo(txn.order_id, "NEEDS ITEMIZATION")]

no_match_txn(txn, order_data) ==
    [txn EXCEPT !.flag = "blue",
                !.memo = order_memo(txn.order_id, "NO SHIPMENT MATCH"),
                !.all_items = item_names(order_data.items)]

grocery_txn(txn, items) ==
    [txn EXCEPT !.is_grocery = TRUE,
                !.items = item_names(items),
                !.items_with_amounts = items,
                !.grocery_items = items,
                !.splits = <<[category |-> "Groceries",
                              amount   |-> signed(txn, Abs(txn.amount)),
                              memo     |-> "Groceries",
                              items    |-> item_names(items)]>>]

pending_txn(txn, items) ==
    [txn EXCEPT !.is_grocery = FALSE,
                !.items = item_names(items),
                !.items_with_amounts = items]

\* Mutant of itemize: only the payee decides whether a charge is grocery.
itemize_payee_grocery(row, txn, order_history, ups) ==
    LET order_data == order_history[txn.order_id]
        m == match_shipment(row.date, txn.amount, order_data)
        items == matched_items_with_amounts(txn.amount, order_data, m, ups)
    IN IF items = <<>>
       THEN [kind |-> "no_match", txn |-> no_match_txn(txn, order_data)]
       ELSE IF is_grocery_transaction(row.payee)
       THEN [kind |-> "grocery", txn |-> grocery_txn(txn, items)]
       ELSE [kind |-> "pending", txn |-> pending_txn(txn, items)]

\* Shipment matching, allocation and the grocery test for a row whose order
\* is in the index and whose payee is no tip.
itemize(row, txn, order_history, ups) ==
    LET order_data == order_history[txn.order_id]
        m == match_shipment(row.date, txn.amount, order_data)
        items == matched_items_with_amounts(txn.amount, order_data, m, ups)
        shipment_is_grocery ==
            IF m.matched_shipment # 0
            THEN order_data.shipments[m.matched_shipment].is_grocery
            ELSE FALSE
        is_grocery == \/ shipment_is_grocery
                      \/ order_data.is_grocery
                      \/ is_grocery_transaction(row.payee)
    IN IF items = <<>>
       THEN [kind |-> "no_match", txn |-> no_match_txn(txn, order_data)]
       ELSE IF is_grocery
       THEN [kind |-> "grocery", txn |-> grocery_txn(txn, items)]
       ELSE [kind |-> "pending", txn |-> pending_txn(txn, items)]

\* Mutant of lookup_and_build: the tip test is made before the order lookup.
lookup_and_build_tip_first(row, txn, order_history, ups) ==
    IF "amazon tips" \in row.payee
    THEN [kind |-> "tip", txn |-> tip_txn(txn)]
    ELSE IF txn.order_id \notin DOMAIN order_history
    THEN [kind |-> "not_found", txn |-> not_found_txn(txn)]
    ELSE itemize(row, txn, order_history, ups)

\* From the order lookup to the end of the loop body: what becomes of a row
\* that has an order id, an amount and a new import id.
lookup_and_build(row, txn, order_history, ups) ==
    IF txn.order_id \notin DOMAIN order_history
    THEN [kind |-> "not_found", txn |-> not_found_txn(txn)]
    ELSE IF "amazon tips" \in row.payee
    THEN [kind |-> "tip", txn |-> tip_txn(txn)]
    ELSE itemize(row, txn, order_history, ups)

NoTxn == [import_id |-> <<>>]

\* The body of the "for row in rows" loop of pass 1.
pass1_row(row, order_history, existing, ups) ==
    LET order_id == extract_order_id(row.memo)
        parsed == parse_amount(row)
        txn == new_txn(row, order_id, parsed.amount)
    IN IF ~is_amazon_transaction(row.payee) THEN [kind |-> "skip", txn |-> NoTxn]
       ELSE IF order_id = "" THEN [kind |-> "skip", txn |-> NoTxn]
       ELSE IF ~parsed.ok THEN [kind |-> "skip", txn |-> NoTxn]
       ELSE IF txn.import_id \in existing THEN [kind |-> "cached", txn |-> NoTxn]
       ELSE lookup_and_build(row, txn, order_history, ups)

-----------------------------------------------------------------------------
(* The category cache (utils.py) and batch_categorize_items.  An ordered    *)
(* dict is a sequence of entries in insertion order.  A classifier answer   *)
(* is the text of one numbered line after the clean-up of its explanations. *)

SeqRange(q) == {q[i] : i \in 1..Len(q)}

\* name.strip().lower()[:60] for the item names of the model.
NormalizedNames ==
    << <<"Towels", "towels">>, <<"Soap", "soap">>, <<"Sponge", "sponge">>,
       <<"Item A", "item a">>, <<"Item B", "item b">>, <<"Banana", "banana">>,
       <<"Milk", "milk">>, <<"Freebie", "freebie">>, <<"Rice", "rice">>,
       <<"Cable", "cable">>, <<"Orphan", "orphan">>,
       <<"Widget X", "widget x">>, <<" widget x", "widget x">>,
       <<"Diapers", "diapers">>,
       <<"Ergonomic Office Chair With Lumbar Support",
         "ergonomic office chair with lumbar support">>,
       <<"Ergonomic Office Cha", "ergonomic office cha">> >>

normalize_item_name(name) ==
    LET p == CHOOSE p \in SeqRange(NormalizedNames) : p[1] = name IN p[2]

\* "" stands for None: no entry, or an entry with an empty category.
get_cached_category(ccache, item_name) ==
    LET key == normalize_item_name(item_name)
    IN IF key \in DOMAIN ccache THEN ccache[key] ELSE ""

cache_category(ccache, item_name, category) ==
    LET key == normalize_item_name(item_name)
    IN IF key # "" /\ category # ""
       THEN [k \in DOMAIN ccache \cup {key} |->
                IF k = key THEN category ELSE ccache[k]]
       ELSE ccache

\* The categories of the budget, and the spellings match_category accepts
\* for them besides the exact one (other case, no emoji, first word).
YnabCategories == {"Toys", "Electronics", "Household Supplies"}
CategorySpellings == << <<"electronics", "Electronics">>, <<"household", "Household Supplies">> >>

match_category(cat) ==
    IF cat \in YnabCategories THEN [cat |-> cat, matched |-> TRUE]
    ELSE IF \E p \in SeqRange(CategorySpellings) : p[1] = cat
    THEN [cat |-> (CHOOSE p \in SeqRange(CategorySpellings) : p[1] = cat)[2], matched |-> TRUE]
    ELSE [cat |-> cat, matched |-> FALSE]

\* get_fallback_category(): rules["fallback_category"], by default.
get_fallback_category == "Uncategorized"

\* The answers that restate a product: a comma, a size, "organic ", ...
ProductLikeAnswers == {"Organic Kale, 12 oz"}
looks_like_product(cat) == cat \in ProductLikeAnswers

\* SUSPICIOUS_RULES, and the keywords the lower-cased item names contain.
SUSPICIOUS_RULES == {[category |-> "Household Supplies", keyword |-> "diaper"]}
ItemKeywords(item) == IF item = "Diapers" THEN {"diaper"} ELSE {}

is_suspicious_categorization(item, category) ==
    \E rule \in SUSPICIOUS_RULES :
        rule.category = category /\ rule.keyword \in ItemKeywords(item)

\* results[import_id][cat].append(item_name) on a defaultdict(list).
dict_append(d, cat, item_name) ==
    IF \E k \in 1..Len(d) : d[k].category = cat
    THEN [k \in 1..Len(d) |->
             IF d[k].category = cat
             THEN [d[k] EXCEPT !.items = Append(@, item_name)] ELSE d[k]]
    ELSE Append(d, [category |-> cat, items |-> <<item_name>>])

\* One call of the classifier, with the items it names that had a cache
\* entry when it was sent.
Request(kind, items, ccache) ==
    [kind |-> kind, items |-> items,
     cached |-> {n \in SeqRange(items) : get_cached_category(ccache, n) # ""}]

\* The cache pass over the items of one transaction.
RECURSIVE cached_into(_, _, _, _)
cached_into(d, items, ccache, i) ==
    IF i > Len(items) THEN d
    ELSE LET cached_cat == get_cached_category(ccache, items[i])
         IN cached_into(IF cached_cat # "" THEN dict_append(d, cached_cat, items[i]) ELSE d,
                        items, ccache, i + 1)

\* all_item_list: the (import_id, item) pairs the cache does not cover.
RECURSIVE all_item_list(_, _)
all_item_list(all_items, ccache) ==
    IF all_items = <<>> THEN <<>>
    ELSE LET data == all_items[Len(all_items)]
             refs == [i \in 1..Len(data.items) |->
                         [import_id |-> data.import_id, item_name |-> data.items[i]]]
         IN all_item_list(SubSeq(all_items, 1, Len(all_items) - 1), ccache)
            \o SelectSeq(refs, LAMBDA r : get_cached_category(ccache, r.item_name) = "")

\* The state of a call before its first chunk: the cached items are filed
\* by the first pass and, when something is left to ask, by the flattening
\* pass a second time.
begin_categorize(all_items, ccache) ==
    LET list == all_item_list(all_items, ccache)
        once == [k \in 1..Len(all_items) |-> cached_into(<<>>, all_items[k].items, ccache, 1)]
        twice == [k \in 1..Len(all_items) |-> cached_into(once[k], all_items[k].items, ccache, 1)]
        filed == IF list = <<>> THEN once ELSE twice
    IN [results   |-> [id \in {all_items[k].import_id : k \in 1..Len(all_items)} |->
                          filed[CHOOSE k \in 1..Len(all_items) : all_items[k].import_id = id]],
        ccache    |-> ccache,
        list      |-> list,
        requests  |-> <<>>,
        unmatched |-> {},
        errors    |-> <<>>]

\* One numbered line of a response: line.answer is its text ("" when the
\* response has no line for the item), line.retry what retry_categorize_item
\* returns and line.resubmit what the resubmission answers ("" for nothing
\* usable).
process_line(st, ref, line) ==
    IF line.answer = "" THEN st
    ELSE LET m == IF looks_like_product(line.answer)
                  THEN [cat |-> line.answer, matched |-> FALSE]
                  ELSE match_category(line.answer)
             retry_cat == line.retry
             cat1 == IF ~m.matched /\ retry_cat # "" THEN retry_cat ELSE m.cat
             suspicious == is_suspicious_categorization(ref.item_name, cat1)
             cat == IF suspicious /\ line.resubmit # "" THEN line.resubmit ELSE cat1
             retry_req == IF m.matched THEN <<>>
                          ELSE <<Request("retry", <<ref.item_name>>, st.ccache)>>
             resubmit_req == IF suspicious
                             THEN <<Request("resubmit", <<ref.item_name>>, st.ccache)>>
                             ELSE <<>>
         IN [st EXCEPT
               !.results[ref.import_id] = dict_append(@, cat, ref.item_name),
               !.ccache = cache_category(@, ref.item_name, cat),
               !.requests = @ \o retry_req \o resubmit_req,
               !.unmatched = IF ~m.matched /\ retry_cat = "" THEN @ \cup {m.cat} ELSE @]

RECURSIVE process_lines(_, _, _, _)
process_lines(st, chunk, lines, i) ==
    IF i > Len(chunk) THEN st
    ELSE process_lines(process_line(st, chunk[i], lines[i]), chunk, lines, i + 1)

\* One iteration of the chunk loop.  Whatever the request raises is caught
\* by the loop's handler, logged (with the number of the request that
\* raised it), and the loop goes on.
process_chunk(st, chunk, env) ==
    LET names == [i \in 1..Len(chunk) |-> chunk[i].item_name]
        sent == [st EXCEPT !.requests = Append(@, Request("chunk", names, st.ccache))]
    IN IF env.outcome \in {"api_error", "rate_limit"}
       THEN [sent EXCEPT !.errors = Append(@, [error |-> env.outcome,
                                               request |-> Len(sent.requests)])]
       ELSE IF env.outcome = "empty" THEN sent
       ELSE process_lines(sent, chunk, env.lines, 1)

\* item_chunk_size, scaled from the 30 of the source to the bounded inputs.
item_chunk_size == 2

num_chunks(list) == (Len(list) + item_chunk_size - 1) \div item_chunk_size

chunk_at(list, k) ==
    SubSeq(list, (k - 1) * item_chunk_size + 1,
           IF k * item_chunk_size < Len(list) THEN k * item_chunk_size ELSE Len(list))

RECURSIVE run_chunks(_, _, _)
run_chunks(st, envs, k) ==
    IF k > num_chunks(st.list) THEN st
    ELSE run_chunks(process_chunk(st, chunk_at(st.list, k), envs[k]), envs, k + 1)

\* The whole call: envs[k] is what the classifier does with chunk k.
batch_categorize_items(all_items, ccache, envs) ==
    run_chunks(begin_categorize(all_items, ccache), envs, 1)

-----------------------------------------------------------------------------
(* Pass 2 of main (synchronous mode): categories, one split per item.       *)

FallbackSplitCategory == "Household Supplies"

\* items_to_categorize, a dict in insertion order: a later transaction with
\* the same import id replaces the items of an earlier one, in its place.
RECURSIVE items_to_categorize(_)
items_to_categorize(pending) ==
    IF pending = <<>> THEN <<>>
    ELSE LET t == pending[Len(pending)]
             rest == items_to_categorize(SubSeq(pending, 1, Len(pending) - 1))
             entry == [import_id |-> t.import_id,
                       items |-> [i \in 1..Len(t.items_with_amounts) |->
                                     t.items_with_amounts[i].base_name]]
         IN IF \E k \in 1..Len(rest) : rest[k].import_id = t.import_id
            THEN [k \in 1..Len(rest) |->
                     IF rest[k].import_id = t.import_id THEN entry ELSE rest[k]]
            ELSE Append(rest, entry)

\* The item names no cache entry covers: those sent to the classifier.
uncached_items(all_items, ccache) ==
    LET list == all_item_list(all_items, ccache)
    IN {list[i].item_name : i \in 1..Len(list)}

\* item_to_category of main: the last category that lists the item wins.
item_to_category(categorized) ==
    LET lists(n) == {k \in 1..Len(categorized) : n \in SeqRange(categorized[k].items)}
    IN [n \in UNION {SeqRange(categorized[k].items) : k \in 1..Len(categorized)} |->
           categorized[CHOOSE k \in lists(n) : \A j \in lists(n) : j <= k].category]

\* The splits of one pending transaction: one per item, no adjustment of
\* the last one.
build_splits(txn, categories) ==
    [i \in 1..Len(txn.items_with_amounts) |->
        LET item_data == txn.items_with_amounts[i]
        IN [category |-> IF item_data.base_name \in DOMAIN categories
                         THEN categories[item_data.base_name]
                         ELSE FallbackSplitCategory,
            amount   |-> signed(txn, Abs(item_data.amount)),
            memo     |-> item_data.name,
            items    |-> <<item_data.name>>]]

apply_categorization_results(pending, results) ==
    [i \in 1..Len(pending) |->
        [pending[i] EXCEPT !.splits =
            build_splits(pending[i],
                         IF pending[i].import_id \in DOMAIN results
                         THEN item_to_category(results[pending[i].import_id])
                         ELSE <<>>)]]

-----------------------------------------------------------------------------
(* Batch mode: submit_batch_categorization and retrieve_batch_results.  An  *)
(* import id is the tuple of the fields its string joins with ":"; a batch  *)
(* of the tracking file is [batch_id, items], items being the dict          *)
(* import id -> items to ask about, in insertion order.                     *)

\* import_id.replace(":", "_"), kept as what custom_id.split("_") returns:
\* no field of an import id holds an underscore.
import_id_to_custom_id(import_id) == [parts |-> import_id]

\* The first four parts are joined again; whatever follows them is dropped.
custom_id_to_import_id(custom_id) ==
    LET parts == custom_id.parts
    IN IF Len(parts) >= 4 /\ parts[1] = "AMZ2"
       THEN <<"AMZ2", parts[2], parts[3], parts[4]>>
       ELSE parts

\* data["items"][:5]
first_five(items) == SubSeq(items, 1, IF Len(items) < 5 THEN Len(items) ELSE 5)

\* items_needing_categorization: per import id the items, among the first
\* five, without a cache entry; a transaction with none is left out.
items_needing_categorization(all_items, ccache) ==
    SelectSeq([k \in 1..Len(all_items) |->
                  [import_id |-> all_items[k].import_id,
                   items |-> SelectSeq(first_five(all_items[k].items),
                                       LAMBDA n : get_cached_category(ccache, n) = "")]],
              LAMBDA e : e.items # <<>>)

\* submit_batch_categorization: no batch (id 0 stands for "") when nothing
\* needs a category or batches.create raises; otherwise the batch is
\* appended to the tracking file under the id the service returned.
submit_batch_categorization(all_items, ccache, batches, new_id, accepted) ==
    LET need == items_needing_categorization(all_items, ccache)
    IN IF all_items = <<>> \/ need = <<>> \/ ~accepted
       THEN [batch_id |-> 0, batches |-> batches]
       ELSE [batch_id |-> new_id,
             batches |-> Append(batches, [batch_id |-> new_id, items |-> need])]

\* items_map.get(import_id, [])
items_map_get(items_map, import_id) ==
    IF \E k \in 1..Len(items_map) : items_map[k].import_id = import_id
    THEN items_map[CHOOSE k \in 1..Len(items_map) :
                      items_map[k].import_id = import_id].items
    ELSE <<>>

\* What the service returns for one request of a batch: a response that
\* gives every line the one valid category, a request that did not succeed,
\* or a response without content.
BatchAnswers == {"Electronics", "Toys", "errored", "no_content"}

\* The lines of one response: categories[cat].append(item) and
\* cache_category(item, cat) for every item of the request.
RECURSIVE parse_response(_, _, _, _)
parse_response(st, items, cat, i) ==
    IF i > Len(items) THEN st
    ELSE parse_response([categories |-> dict_append(st.categories, cat, items[i]),
                         ccache |-> cache_category(st.ccache, items[i], cat)],
                        items, cat, i + 1)

\* The loop over client.messages.batches.results(batch_id): the service
\* returns one result per request.
RECURSIVE batch_results(_, _, _, _)
batch_results(st, items_map, answers, k) ==
    IF k > Len(items_map) THEN st
    ELSE LET custom_id == import_id_to_custom_id(items_map[k].import_id)
             import_id == custom_id_to_import_id(custom_id)
             parsed == parse_response([categories |-> <<>>, ccache |-> st.ccache],
                                      items_map_get(items_map, import_id),
                                      answers[k], 1)
             set(v) == [id \in DOMAIN st.results \cup {import_id} |->
                           IF id = import_id THEN v ELSE st.results[id]]
         IN batch_results(
                IF answers[k] = "no_content" THEN st
                ELSE IF answers[k] = "errored"
                THEN [st EXCEPT !.results = set(<<>>)]
                ELSE [results |-> set(parsed.categories), ccache |-> parsed.ccache],
                items_map, answers, k + 1)

\* "Also check local cache for any items not in batch results".
RECURSIVE merge_cached(_, _, _, _)
merge_cached(categorized, items, ccache, i) ==
    IF i > Len(items) THEN categorized
    ELSE LET cached_cat == get_cached_category(ccache, items[i])
             listed == \E k \in 1..Len(categorized) :
                          /\ categorized[k].category = cached_cat
                          /\ items[i] \in SeqRange(categorized[k].items)
         IN merge_cached(IF cached_cat # "" /\ ~listed
                         THEN dict_append(categorized, cached_cat, items[i])
                         ELSE categorized,
                         items, ccache, i + 1)

\* list(Counter(items).keys()): the items, each once, in order of first
\* appearance.
RECURSIVE counter_keys(_)
counter_keys(items) ==
    IF items = <<>> THEN <<>>
    ELSE LET rest == counter_keys(SubSeq(items, 1, Len(items) - 1))
             last == items[Len(items)]
         IN IF last \in SeqRange(rest) THEN rest ELSE Append(rest, last)

counter_count(items, name) == Cardinality({i \in 1..Len(items) : items[i] = name})

\* items_desc: the first three parts, and how many more there are.
items_desc(items) ==
    LET keys == counter_keys(items)
        memo_parts == [i \in 1..Len(keys) |->
                          display_name(counter_count(items, keys[i]), keys[i])]
    IN [parts |-> SubSeq(memo_parts, 1, IF Len(memo_parts) < 3 THEN Len(memo_parts) ELSE 3),
        more  |-> IF Len(memo_parts) > 3 THEN Len(memo_parts) - 3 ELSE 0]

\* One split per category, the amount in proportion to the number of items;
\* the last category takes what remains.
category_splits(amount, categorized, up) ==
    LET total_items == SumSeq([k \in 1..Len(categorized) |-> Len(categorized[k].items)])
        last == Len(categorized)
        proportional == [k \in 1..(last - 1) |->
                            round_cents(amount * Len(categorized[k].items), total_items, up)]
    IN [k \in 1..last |->
           [category |-> categorized[k].category,
            amount   |-> IF k = last THEN amount - SumSeq(proportional)
                         ELSE proportional[k],
            memo     |-> items_desc(categorized[k].items),
            items    |-> counter_keys(categorized[k].items)]]

\* The loop of retrieve_batch_results over cache["transactions"].
apply_batch_results(transactions, results, items_map, ccache, ups) ==
    [i \in 1..Len(transactions) |->
        LET txn == transactions[i]
            import_id == txn.import_id
        IN IF import_id \in DOMAIN results /\ txn.splits = <<>>
           THEN LET categorized == merge_cached(results[import_id],
                                                items_map_get(items_map, import_id),
                                                ccache, 1)
                IN IF categorized = <<>> THEN txn
                   ELSE [txn EXCEPT !.splits =
                            category_splits(txn.amount, categorized, ups[i])]
           ELSE txn]

-----------------------------------------------------------------------------
(* Specification SpecMatch: the matcher and the allocation applied to one   *)
(* charge and one order, both drawn from bounded sets.                      *)

MaxItems == 2

NotRun == [kind |-> "not_run"]

MatchShipDates == {NoDate, 2, 7, 9, 11}
MatchItemTotals == {0, 100, 300}
MatchChargeDates == {NoDate, 10}
MatchChargeAmounts == {-100, -101, 100}

MatchRawItems ==
    [order_id : {"o1"}, name : {"A"}, total : MatchItemTotals,
     ship_date : MatchShipDates, quantity : {1}, grocery : {FALSE}]

\* The rows of the order, named by their position in the file.
NameRows(s) == [i \in 1..Len(s) |-> [s[i] EXCEPT !.name = <<"item", i>>]]

TieChoices(n) == [1..n -> BOOLEAN]

\* No run of main yet, no cache file, no batch.
InitRuns ==
    /\ pc = "idle" /\ run = 0 /\ batch = FALSE /\ rows = <<>> /\ rowIdx = 0
    /\ cache_file = [exists |-> FALSE, transactions |-> <<>>, synced |-> {}]
    /\ cache = <<>> /\ loaded = <<>> /\ existing_ids = {}
    /\ pending_txns = <<>>
    /\ stats = [processed |-> 0, not_found |-> 0, cached |-> 0, grocery |-> 0]
    /\ saved = FALSE /\ prev_saved = FALSE
    /\ pending_batches = <<>>

InitMain == InitRuns /\ category_cache = <<>>

ZeroSyncStats ==
    [created |-> 0, updated |-> 0, skipped |-> 0, duplicate |-> 0, failed |-> 0]

\* History of the sync runs: whether the first run met a failed request or
\* was a dry run, the import ids the ledger held when the current run
\* started, and the import ids of the current run's create requests.
NoTrace ==
    [failed |-> FALSE, dry |-> FALSE, written |-> {}, requested |-> {},
     posts |-> 0, failed_ids |-> {}, duplicates |-> 0]

InitSyncIdle ==
    /\ y_ledger = <<>> /\ s_pc = "idle" /\ s_run = 0 /\ dry_run = FALSE
    /\ synced = {} /\ to_create = <<>> /\ to_update = <<>> /\ create_idx = 0
    /\ s_stats = ZeroSyncStats
    /\ s_trace = NoTrace

InitEmailIdle ==
    /\ processed_emails = {} /\ e_ledger = <<>> /\ e_inv = <<>>

NoCall == [results |-> <<>>, ccache |-> <<>>, list |-> <<>>, requests |-> <<>>,
           unmatched |-> {}, errors |-> <<>>]

InitOrderIdle == o_ledger = <<>> /\ o_runs = <<>> /\ o_replies = 0

InitCatIdle ==
    /\ cat_pc = "idle" /\ cat_items = <<>> /\ cat_cache0 = <<>>
    /\ cat_st = NoCall /\ cat_k = 0 /\ cat_calls = 0

InitMatch ==
    /\ \E n \in 1..MaxItems : \E s \in [1..n -> MatchRawItems] :
          m_hist = NameRows(s)
    /\ m_charge \in [date : MatchChargeDates, amount : MatchChargeAmounts]
    /\ m_out = NotRun
    /\ InitMain
    /\ InitSyncIdle
    /\ InitEmailIdle
    /\ InitCatIdle /\ InitOrderIdle

m_order == load_order_history(m_hist)["o1"]

\* Pass 1 of main for one charge whose order is in the index: match, allocate.
MatchCharge ==
    /\ m_out = NotRun
    /\ \E ups \in TieChoices(Len(m_hist)) :
          LET m == match_shipment(m_charge.date, m_charge.amount, m_order)
          IN m_out' = [kind  |-> "matched",
                       match |-> m,
                       items |-> matched_items_with_amounts(
                                     m_charge.amount, m_order, m, ups)]
    /\ UNCHANGED <<m_hist, m_charge>>
    /\ UNCHANGED mainVars
    /\ UNCHANGED syncVars /\ UNCHANGED emailVars /\ UNCHANGED catVars /\ UNCHANGED orderVars

NextMatch == MatchCharge

SpecMatch == InitMatch /\ [][NextMatch]_vars

\* Specification SpecAlloc: the same step for charges on one shipment whose
\* items differ in total and quantity.
AllocItemTotals == {100, 300, 8000, 12000}
AllocQuantities == {1, 2}
AllocChargeAmounts == {-14000, -150, 14000}

AllocRawItems ==
    [order_id : {"o1"}, name : {"A"}, total : AllocItemTotals,
     ship_date : {9}, quantity : AllocQuantities, grocery : {FALSE}]

InitAlloc ==
    /\ \E n \in 1..MaxItems : \E s \in [1..n -> AllocRawItems] :
          m_hist = NameRows(s)
    /\ m_charge \in [date : MatchChargeDates, amount : AllocChargeAmounts]
    /\ m_out = NotRun
    /\ InitMain
    /\ InitSyncIdle
    /\ InitEmailIdle
    /\ InitCatIdle /\ InitOrderIdle

SpecAlloc == InitAlloc /\ [][NextMatch]_vars

-----------------------------------------------------------------------------
(* Specification Spec: runs of process_transactions.main over one input     *)
(* file, one cache file and one order history.                              *)

MaxRows == 2
MaxRuns == 2

\* The order history on disk (Amazon's export), as raw rows.
HistoryRow(o, n, t, d, q, g) ==
    [order_id |-> o, name |-> n, total |-> t, ship_date |-> d,
     quantity |-> q, grocery |-> g]

OrderHistoryRows ==
    << HistoryRow("o1", "Towels",  100, 9, 1, FALSE),
       HistoryRow("o1", "Soap",    100, 9, 2, FALSE),
       HistoryRow("o1", "Sponge",  100, 9, 1, FALSE),
       HistoryRow("o1", "Item A", 1200, 7, 1, FALSE),
       HistoryRow("o1", "Item B",  800, 7, 1, FALSE),
       HistoryRow("o2", "Banana",  300, 9, 1, TRUE),
       HistoryRow("o2", "Milk",    200, 9, 1, TRUE),
       HistoryRow("o3", "Freebie",   0, 9, 1, FALSE),
       HistoryRow("o4", "Rice",    100, 9, 1, TRUE),
       HistoryRow("o4", "Cable",   100, 7, 1, FALSE),
       HistoryRow("",   "Orphan",  500, 9, 1, FALSE) >>

order_history == load_order_history(OrderHistoryRows)

\* The longest shipment of the history: as many roundings per charge at most.
MaxShipmentItems ==
    CHOOSE n \in 0..Len(OrderHistoryRows) :
      /\ \A o \in DOMAIN order_history :
            \A i \in 1..Len(order_history[o].shipments) :
              Len(order_history[o].shipments[i].items) <= n
      /\ \E o \in DOMAIN order_history :
            \E i \in 1..Len(order_history[o].shipments) :
              Len(order_history[o].shipments[i].items) = n

EmptyCell == [k |-> "empty", cents |-> 0]
BadCell == [k |-> "bad", cents |-> 0]
Num(c) == [k |-> "num", cents |-> c]

CsvRow(p, o, i, out, d) ==
    [payee |-> p, memo |-> [order |-> o], inflow |-> i, outflow |-> out,
     date |-> d]

\* The rows an input file is made of.
InputRows ==
    {CsvRow({"amazon"}, o, EmptyCell, Num(c[1]), c[2]) :
        o \in {"o1", "o2"}, c \in {<<100, 10>>, <<1400, 8>>}}
    \cup {CsvRow({"amazon"}, o, EmptyCell, Num(100), 10) :
             o \in {"", "o3", "o4", "o9"}}
    \cup {CsvRow({"amazon"}, "o4", EmptyCell, Num(100), 8),
          CsvRow({"amazon"}, "o2", EmptyCell, Num(300), NoDate)}
    \cup {CsvRow({"amazon", "amazon tips"}, o, EmptyCell, Num(100), 10) :
             o \in {"", "o1", "o9"}}
    \cup {CsvRow({"amazon", "amazon fresh"}, "o1", EmptyCell, Num(100), 10)}
    \cup {CsvRow({"amazon"}, o, Num(100), EmptyCell, 10) :
             o \in {"o1", "o2", "o9"}}
    \cup {CsvRow({"amazon", "amazon tips"}, "o1", Num(100), EmptyCell, 10)}
    \cup {CsvRow({"whole foods"}, "o2", EmptyCell, Num(100), 10),
          CsvRow({"amazon"}, "o1", EmptyCell, EmptyCell, 10),
          CsvRow({"amazon"}, "o1", EmptyCell, BadCell, 10),
          CsvRow({"amazon"}, "o1", EmptyCell, Num(100), NoDate)}

\* What the classifier does with one chunk of a run of main: it answers
\* every line with one valid category, or the request fails.
Line(answer, retry, resubmit) == [answer |-> answer, retry |-> retry, resubmit |-> resubmit]

MainChunkEnvs ==
    {[outcome |-> "ok", lines |-> [i \in 1..item_chunk_size |-> Line("Electronics", "", "")]],
     [outcome |-> "api_error", lines |-> <<>>]}

ZeroStats == [processed |-> 0, not_found |-> 0, cached |-> 0, grocery |-> 0]

InitMatchIdle ==
    /\ m_hist = <<>> /\ m_charge = [date |-> NoDate, amount |-> 0]
    /\ m_out = NotRun

\* The category cache file as earlier inputs left it: empty, or holding
\* the one item of the first shipment of order o1 that a charge of 1.00
\* is allocated to.
InitialCategoryCaches == {<<>>, cache_category(<<>>, "Towels", "Household Supplies")}

Init ==
    /\ InitRuns
    /\ category_cache \in InitialCategoryCaches
    /\ InitMatchIdle
    /\ InitSyncIdle
    /\ InitEmailIdle
    /\ InitCatIdle /\ InitOrderIdle

\* load_cache and the set of known import ids: the start of a run.
StartRun ==
    /\ pc \in {"idle", "done"}
    /\ run < MaxRuns
    /\ run' = run + 1
    /\ pc' = "pass1"
    /\ batch' \in BOOLEAN
    /\ rowIdx' = 0
    /\ loaded' = IF cache_file.exists THEN cache_file.transactions ELSE <<>>
    /\ cache' = loaded'
    /\ existing_ids' = {loaded'[i].import_id : i \in 1..Len(loaded')}
    /\ pending_txns' = <<>>
    /\ stats' = ZeroStats
    /\ prev_saved' = saved
    /\ saved' = FALSE
    /\ UNCHANGED <<rows, cache_file, category_cache, pending_batches>>
    /\ UNCHANGED matchVars
    /\ UNCHANGED syncVars /\ UNCHANGED emailVars /\ UNCHANGED catVars /\ UNCHANGED orderVars

\* What one iteration of the pass 1 loop does to the state of the run.
ApplyRow(row) ==
    \E r \in {pass1_row(row, order_history, existing_ids, ups) :
                ups \in TieChoices(MaxShipmentItems)} :
       /\ cache' = IF r.kind \in {"not_found", "tip", "no_match", "grocery"}
                   THEN Append(cache, r.txn) ELSE cache
       /\ pending_txns' = IF r.kind = "pending"
                          THEN Append(pending_txns, r.txn) ELSE pending_txns
       /\ stats' = [processed |-> stats.processed
                        + (IF r.kind \in {"tip", "grocery"} THEN 1 ELSE 0),
                    not_found |-> stats.not_found
                        + (IF r.kind \in {"not_found", "no_match"} THEN 1 ELSE 0),
                    cached |-> stats.cached
                        + (IF r.kind = "cached" THEN 1 ELSE 0),
                    grocery |-> stats.grocery
                        + (IF r.kind = "grocery" THEN 1 ELSE 0)]

\* Pass 1, first run: the next row of the input file is read and handled.
ReadRow ==
    /\ pc = "pass1" /\ run = 1
    /\ Len(rows) < MaxRows
    /\ \E row \in InputRows :
          /\ rows' = Append(rows, row)
          /\ ApplyRow(row)
    /\ rowIdx' = rowIdx + 1
    /\ UNCHANGED <<pc, run, batch, cache_file, loaded, existing_ids, saved,
                   prev_saved, category_cache, pending_batches>>
    /\ UNCHANGED matchVars
    /\ UNCHANGED syncVars /\ UNCHANGED emailVars /\ UNCHANGED catVars /\ UNCHANGED orderVars

\* Pass 1, later runs: the same input file is read again.
RereadRow ==
    /\ pc = "pass1" /\ run > 1
    /\ rowIdx < Len(rows)
    /\ ApplyRow(rows[rowIdx + 1])
    /\ rowIdx' = rowIdx + 1
    /\ UNCHANGED <<pc, run, batch, rows, cache_file, loaded, existing_ids,
                   saved, prev_saved, category_cache, pending_batches>>
    /\ UNCHANGED matchVars
    /\ UNCHANGED syncVars /\ UNCHANGED emailVars /\ UNCHANGED catVars /\ UNCHANGED orderVars

Pass1Over == pc = "pass1" /\ rowIdx = Len(rows) /\ Len(rows) >= 1

\* Pass 2 with nothing to categorize: main saves nothing.
Pass2Nothing ==
    /\ Pass1Over
    /\ pending_txns = <<>>
    /\ pc' = "done"
    /\ UNCHANGED <<run, batch, rows, rowIdx, cache_file, cache, loaded,
                   existing_ids, pending_txns, stats, saved, prev_saved,
                   category_cache, pending_batches>>
    /\ UNCHANGED matchVars
    /\ UNCHANGED syncVars /\ UNCHANGED emailVars /\ UNCHANGED catVars /\ UNCHANGED orderVars

\* Pass 2, synchronous mode: categorize, build the splits, save the cache.
Pass2Sync ==
    /\ Pass1Over
    /\ pending_txns # <<>>
    /\ ~batch
    /\ LET all_items == items_to_categorize(pending_txns)
           list == all_item_list(all_items, category_cache)
       IN \E envs \in [1..num_chunks(list) -> MainChunkEnvs] :
            LET st == batch_categorize_items(all_items, category_cache, envs)
            IN /\ cache' = cache \o apply_categorization_results(pending_txns,
                                                                  st.results)
               /\ category_cache' = st.ccache
    /\ stats' = [stats EXCEPT !.processed = @ + Len(pending_txns)]
    /\ cache_file' = [cache_file EXCEPT !.exists = TRUE,
                                        !.transactions = cache']
    /\ saved' = TRUE
    /\ pc' = "done"
    /\ UNCHANGED <<run, batch, rows, rowIdx, loaded, existing_ids,
                   pending_txns, prev_saved, pending_batches>>
    /\ UNCHANGED matchVars
    /\ UNCHANGED syncVars /\ UNCHANGED emailVars /\ UNCHANGED catVars /\ UNCHANGED orderVars

\* Pass 2, batch mode: the pending transactions are saved without splits,
\* then the batch is submitted (accepted or not).
Pass2Batch ==
    /\ Pass1Over
    /\ pending_txns # <<>>
    /\ batch
    /\ cache' = cache \o pending_txns
    /\ cache_file' = [cache_file EXCEPT !.exists = TRUE,
                                        !.transactions = cache']
    /\ saved' = TRUE
    /\ \E accepted \in BOOLEAN :
          LET r == submit_batch_categorization(items_to_categorize(pending_txns),
                                               category_cache, pending_batches,
                                               run, accepted)
          IN /\ pending_batches' = r.batches
             /\ stats' = IF r.batch_id # 0
                         THEN [stats EXCEPT !.processed = Len(pending_txns)]
                         ELSE stats
    /\ pc' = "done"
    /\ UNCHANGED <<run, batch, rows, rowIdx, loaded, existing_ids,
                   pending_txns, prev_saved, category_cache>>
    /\ UNCHANGED matchVars
    /\ UNCHANGED syncVars /\ UNCHANGED emailVars /\ UNCHANGED catVars /\ UNCHANGED orderVars

\* retrieve_batch_results (--batch-results) for a batch of the tracking
\* file whose processing ended, between two runs of main: the categories
\* are cached, the transactions the results name get their splits, the
\* cache file is saved and the batch leaves the tracking file.  A batch id
\* the tracking file does not hold, a batch still in progress and a
\* retrieval that raises return an error and change nothing.
RetrieveBatchResults ==
    /\ pc \in {"idle", "done"}
    /\ cache_file.exists
    /\ \E b \in 1..Len(pending_batches) :
       \E answers \in [1..Len(pending_batches[b].items) -> BatchAnswers] :
          LET batch_info == pending_batches[b]
              r == batch_results([results |-> <<>>, ccache |-> category_cache],
                                 batch_info.items, answers, 1)
          IN /\ category_cache' = r.ccache
             /\ cache_file' \in
                  {[cache_file EXCEPT !.transactions =
                       apply_batch_results(@, r.results, batch_info.items,
                                           r.ccache, ups)] :
                     ups \in TieChoices(Len(cache_file.transactions))}
             /\ pending_batches' =
                  SelectSeq(pending_batches,
                            LAMBDA x : x.batch_id # batch_info.batch_id)
    /\ pc' = "idle"
    /\ UNCHANGED <<run, batch, rows, rowIdx, cache, loaded, existing_ids,
                   pending_txns, stats, saved, prev_saved>>
    /\ UNCHANGED matchVars
    /\ UNCHANGED syncVars /\ UNCHANGED emailVars /\ UNCHANGED catVars /\ UNCHANGED orderVars

Next ==
    \/ StartRun \/ ReadRow \/ RereadRow
    \/ Pass2Nothing \/ Pass2Sync \/ Pass2Batch
    \/ RetrieveBatchResults

Spec == Init /\ [][Next]_vars

-----------------------------------------------------------------------------
(* sync_to_ynab.sync_transactions against the ledger.  A cached transaction *)
(* is [import_id, age, order_id, amount, memo, splits]; its age stands for  *)
(* its date: "ancient" is before the 5-year cutoff, "old" before the        *)
(* since_date of get_existing_transactions, "recent" after it.  A ledger    *)
(* transaction is [id, import_id, amount, memo, subtransactions, age], with *)
(* amounts in milliunits.                                                   *)

MilliPerCent == 10
BatchSize == 50

\* Mutant of build_subtransactions: no rounding fix on the last one.
build_subtransactions_unadjusted(txn) ==
    [i \in 1..Len(txn.splits) |->
        [amount      |-> txn.splits[i].amount * MilliPerCent,
         category_id |-> txn.splits[i].category,
         memo        |-> txn.splits[i].memo]]

\* build_subtransactions: milliunit amounts, category ids, memos; the
\* rounding difference to the parent goes to the last one.  <<>> is None.
build_subtransactions(txn) ==
    LET n == Len(txn.splits)
        raw == [i \in 1..n |->
                  [amount      |-> txn.splits[i].amount * MilliPerCent,
                   category_id |-> txn.splits[i].category,
                   memo        |-> txn.splits[i].memo]]
        rounding_diff == txn.amount * MilliPerCent - SumSeq(Amounts(raw))
    IN [i \in 1..n |->
          IF i = n THEN [raw[i] EXCEPT !.amount = @ + rounding_diff]
          ELSE raw[i]]

\* Mutant of subtransactions_differ: the amounts are compared too.
subtransactions_differ_by_amount(local_subs, ynab_subs) ==
    IF local_subs = <<>> /\ ynab_subs = <<>> THEN FALSE
    ELSE IF local_subs = <<>> \/ ynab_subs = <<>> THEN TRUE
    ELSE IF Len(local_subs) # Len(ynab_subs) THEN TRUE
    ELSE \E i \in 1..Len(local_subs) :
           \/ local_subs[i].memo # ynab_subs[i].memo
           \/ local_subs[i].amount # ynab_subs[i].amount + 1

subtransactions_differ(local_subs, ynab_subs) ==
    IF local_subs = <<>> /\ ynab_subs = <<>> THEN FALSE
    ELSE IF local_subs = <<>> \/ ynab_subs = <<>> THEN TRUE
    ELSE IF Len(local_subs) # Len(ynab_subs) THEN TRUE
    ELSE \E i \in 1..Len(local_subs) :
           local_subs[i].memo # ynab_subs[i].memo

\* The keys get_existing_transactions files a ledger transaction under: its
\* import id, and the ids rebuilt from an "Order <id>" memo.  t.amount is in
\* currency units there, so int(abs(t.amount) / 10) is a tenth of it.
existing_keys(t) ==
    (IF t.import_id # <<>> THEN {t.import_id} ELSE {})
    \cup (IF t.memo.order # ""
          THEN LET amount_cents == (Abs(t.amount) \div 1000) \div 10
                   direction == IF t.amount > 0 THEN "R" ELSE "P"
               IN {<<"AMZ", t.memo.order, amount_cents>>,
                   <<"AMZ2", t.memo.order, amount_cents>>,
                   <<"AMZ2", t.memo.order, amount_cents, direction>>,
                   <<"AMZ3", t.memo.order, amount_cents, direction>>}
          ELSE {})

\* get_existing_transactions: key -> index of the last fetched ledger
\* transaction filed under it.  Only "recent" transactions are fetched.
get_existing_transactions(ledger) ==
    LET fetched == {i \in 1..Len(ledger) : ledger[i].age = "recent"}
        keys == UNION {existing_keys(ledger[i]) : i \in fetched}
    IN [k \in keys |->
          CHOOSE i \in fetched :
            /\ k \in existing_keys(ledger[i])
            /\ \A j \in fetched : k \in existing_keys(ledger[j]) => j <= i]

\* The first pass of sync_transactions over the cached transactions:
\* st = [synced, to_create, to_update, stats].
RECURSIVE first_pass(_, _, _, _, _)
first_pass(transactions, i, existing, ledger, st) ==
    IF i > Len(transactions) THEN st
    ELSE
      LET txn == transactions[i]
          id == txn.import_id
          subs == build_subtransactions(txn)
          bump(f) == [st.stats EXCEPT ![f] = @ + 1]
          next ==
            IF txn.age = "ancient"
            THEN [st EXCEPT !.stats = bump("skipped")]
            ELSE IF id \in st.synced /\ id \notin DOMAIN existing
            THEN [st EXCEPT !.stats = bump("skipped")]
            ELSE IF id \in DOMAIN existing
            THEN LET remote == ledger[existing[id]]
                 IN IF subs # <<>>
                       /\ subtransactions_differ(subs, remote.subtransactions)
                    THEN [st EXCEPT !.to_update = Append(@,
                            [txn |-> txn, transaction_id |-> remote.id,
                             subtransactions |-> subs])]
                    ELSE IF id \notin st.synced
                    THEN [st EXCEPT !.synced = @ \cup {id},
                                    !.stats = bump("duplicate")]
                    ELSE [st EXCEPT !.stats = bump("skipped")]
            ELSE [st EXCEPT !.to_create = Append(@,
                    [txn |-> txn,
                     ynab_txn |-> [import_id |-> id,
                                   amount |-> txn.amount * MilliPerCent,
                                   memo |-> txn.memo,
                                   age |-> txn.age,
                                   subtransactions |-> subs]])]
      IN first_pass(transactions, i + 1, existing, ledger, next)

\* The ledger's answer to POST /transactions: a transaction whose import id
\* the account already holds is reported as duplicate and not created.
RECURSIVE ledger_create(_, _, _)
ledger_create(ledger, batch_data, duplicates) ==
    IF batch_data = <<>>
    THEN [ledger |-> ledger, duplicate_import_ids |-> duplicates]
    ELSE LET d == Head(batch_data)
         IN IF \E i \in 1..Len(ledger) : ledger[i].import_id = d.import_id
            THEN ledger_create(ledger, Tail(batch_data),
                               duplicates \cup {d.import_id})
            ELSE ledger_create(
                   Append(ledger, [id |-> Len(ledger) + 1,
                                   import_id |-> d.import_id,
                                   amount |-> d.amount,
                                   memo |-> d.memo,
                                   subtransactions |-> d.subtransactions,
                                   age |-> d.age]),
                   Tail(batch_data), duplicates)

\* PUT /transactions/{id} with new subtransactions.
ledger_update(ledger, transaction_id, subtransactions) ==
    [i \in 1..Len(ledger) |->
        IF ledger[i].id = transaction_id
        THEN [ledger[i] EXCEPT !.subtransactions = subtransactions]
        ELSE ledger[i]]

RECURSIVE ledger_updates(_, _, _)
ledger_updates(ledger, updates, ok) ==
    IF updates = <<>> THEN ledger
    ELSE ledger_updates(
           IF Head(ok)
           THEN ledger_update(ledger, Head(updates).transaction_id,
                              Head(updates).subtransactions)
           ELSE ledger,
           Tail(updates), Tail(ok))

-----------------------------------------------------------------------------
(* Specification SpecSync: runs of sync_transactions over one cache file.   *)

MaxTxns == 2
MaxSyncRuns == 2

SyncSplit(c, a, m) == [category |-> c, amount |-> a, memo |-> m]

SyncTxn(o, a, age, splits) ==
    [import_id |-> <<"AMZ2", o, Abs(a), "P">>, age |-> age, order_id |-> o,
     amount |-> a, memo |-> order_memo(o, ""), splits |-> splits]

\* The transactions a cache file may hold: records process_transactions
\* writes (flagged without splits, one split, the same split under another
\* memo or another category, several splits).
SyncSplitChoices(a) ==
    {<<>>,
     <<SyncSplit("Groceries", a, "A")>>,
     <<SyncSplit("Groceries", a, "2 x A")>>,
     <<SyncSplit("Toys", a, "A")>>,
     <<SyncSplit("Toys", -33, "A"), SyncSplit("Toys", -33, "B"),
       SyncSplit("Toys", a + 67, "C")>>}

SyncTxns ==
    {SyncTxn("o1", -100, age, sp) :
        age \in {"recent", "old", "ancient"}, sp \in SyncSplitChoices(-100)}
    \cup {SyncTxn("o2", -100, "recent", sp) : sp \in SyncSplitChoices(-100)}
    \cup {SyncTxn("o1", -100000, "recent", sp) :
            sp \in SyncSplitChoices(-100000)}

\* What the account holds before the first run: nothing, a transaction an
\* earlier sync created, or one entered by hand with an order memo.
LedgerTxn(id, import_id, t) ==
    [id |-> id, import_id |-> import_id, amount |-> t.amount * MilliPerCent,
     memo |-> t.memo, subtransactions |-> build_subtransactions(t),
     age |-> t.age]

InitialLedgers ==
    LET t == SyncTxn("o1", -100, "recent", <<SyncSplit("Groceries", -100, "A")>>)
        h == SyncTxn("o2", -100000, "recent", <<>>)
    IN {<<>>, <<LedgerTxn(1, t.import_id, t)>>, <<LedgerTxn(1, <<>>, h)>>}

InitSync ==
    /\ InitMatchIdle
    /\ pc = "idle" /\ run = 0 /\ batch = FALSE /\ rows = <<>> /\ rowIdx = 0
    /\ cache = <<>> /\ loaded = <<>> /\ existing_ids = {}
    /\ pending_txns = <<>> /\ stats = ZeroStats
    /\ saved = FALSE /\ prev_saved = FALSE /\ category_cache = <<>>
    /\ pending_batches = <<>>
    /\ \E n \in 1..MaxTxns : \E txns \in [1..n -> SyncTxns] :
          cache_file = [exists |-> TRUE, transactions |-> txns, synced |-> {}]
    /\ y_ledger \in InitialLedgers
    /\ s_pc = "idle" /\ s_run = 0 /\ dry_run = FALSE
    /\ synced = {} /\ to_create = <<>> /\ to_update = <<>> /\ create_idx = 0
    /\ s_stats = ZeroSyncStats
    /\ s_trace = NoTrace
    /\ InitEmailIdle
    /\ InitCatIdle /\ InitOrderIdle

\* From the start of sync_transactions to the end of its first pass.
SyncStart ==
    /\ s_pc \in {"idle", "done"}
    /\ s_run < MaxSyncRuns
    /\ s_run' = s_run + 1
    /\ dry_run' \in BOOLEAN
    /\ LET existing == get_existing_transactions(y_ledger)
           st == first_pass(cache_file.transactions, 1, existing, y_ledger,
                            [synced |-> cache_file.synced,
                             to_create |-> <<>>, to_update |-> <<>>,
                             stats |-> ZeroSyncStats])
       IN /\ synced' = st.synced
          /\ to_create' = st.to_create
          /\ to_update' = st.to_update
          /\ s_stats' = st.stats
          /\ s_trace' = [s_trace EXCEPT
                            !.dry = @ \/ (s_run = 0 /\ dry_run'),
                            !.written = {y_ledger[i].import_id : i \in 1..Len(y_ledger)},
                            !.requested = {},
                            !.posts = 0,
                            !.failed_ids = {},
                            !.duplicates = st.stats.duplicate]
    /\ create_idx' = 0
    /\ s_pc' = "update"
    /\ UNCHANGED <<y_ledger, cache_file>>
    /\ UNCHANGED matchVars /\ UNCHANGED runVars
    /\ UNCHANGED emailVars /\ UNCHANGED catVars /\ UNCHANGED orderVars

\* "Handle updates first": every queued update is sent; each one may raise.
SyncUpdates ==
    /\ s_pc = "update"
    /\ IF to_update = <<>>
       THEN UNCHANGED <<y_ledger, synced, s_stats, s_trace>>
       ELSE IF dry_run
       THEN /\ s_stats' = [s_stats EXCEPT !.updated = Len(to_update)]
            /\ UNCHANGED <<y_ledger, synced, s_trace>>
       ELSE \E ok \in [1..Len(to_update) -> BOOLEAN] :
            LET done == {i \in 1..Len(to_update) : ok[i]}
            IN /\ y_ledger' = ledger_updates(y_ledger, to_update, ok)
               /\ synced' = synced \cup
                              {to_update[i].txn.import_id : i \in done}
               /\ s_stats' = [s_stats EXCEPT
                                 !.updated = @ + Cardinality(done),
                                 !.failed = @ + Len(to_update) - Cardinality(done)]
               /\ s_trace' = [s_trace EXCEPT
                                 !.failed = @ \/ (s_run = 1 /\
                                               done # 1..Len(to_update))]
    /\ s_pc' = "create"
    /\ UNCHANGED <<s_run, dry_run, to_create, to_update, create_idx, cache_file>>
    /\ UNCHANGED matchVars /\ UNCHANGED runVars
    /\ UNCHANGED emailVars /\ UNCHANGED catVars /\ UNCHANGED orderVars

SyncBatch == SubSeq(to_create, create_idx + 1,
                    IF create_idx + BatchSize < Len(to_create)
                    THEN create_idx + BatchSize ELSE Len(to_create))

SyncBatchIds == {SyncBatch[i].txn.import_id : i \in 1..Len(SyncBatch)}

\* Dry run: the transactions to create are only counted.
SyncCreateDry ==
    /\ s_pc = "create" /\ dry_run /\ create_idx < Len(to_create)
    /\ s_stats' = [s_stats EXCEPT !.created = Len(to_create)]
    /\ create_idx' = Len(to_create)
    /\ UNCHANGED <<y_ledger, s_pc, s_run, dry_run, synced, to_create,
                   to_update, s_trace, cache_file>>
    /\ UNCHANGED matchVars /\ UNCHANGED runVars
    /\ UNCHANGED emailVars /\ UNCHANGED catVars /\ UNCHANGED orderVars

\* The transactions of a batch whose import id the ledger's answer lists in
\* duplicate_import_ids.
ReportedDuplicates(ledger, batch_) ==
    LET result == ledger_create(ledger, [i \in 1..Len(batch_) |-> batch_[i].ynab_txn], {})
    IN Cardinality({i \in 1..Len(batch_) :
                      batch_[i].txn.import_id \in result.duplicate_import_ids})

\* YNABWriter._write: the request is sent again after every 429 answer, five
\* times at most.  too_many is the number of 429 answers the ledger gives
\* first, last its answer after them.  raised is "" when the call returns.
WriteAttempts == 5

write(too_many, last) ==
    IF too_many >= WriteAttempts
    THEN [raised |-> "429", posts |-> WriteAttempts]
    ELSE [raised |-> IF last = "ok" THEN "" ELSE "error", posts |-> too_many + 1]

\* What the ledger may answer to the requests of one call of the writer.
WriteAnswers == {write(k, last) : k \in 0..WriteAttempts, last \in {"ok", "error"}}

\* One batch, create_transactions_batch returns at the first call.
SyncCreateOk ==
    /\ s_pc = "create" /\ ~dry_run /\ create_idx < Len(to_create)
    /\ LET result == ledger_create(y_ledger,
                        [i \in 1..Len(SyncBatch) |-> SyncBatch[i].ynab_txn], {})
           dups == {i \in 1..Len(SyncBatch) :
                      SyncBatch[i].txn.import_id \in result.duplicate_import_ids}
       IN /\ y_ledger' = result.ledger
          /\ s_stats' = [s_stats EXCEPT
                            !.duplicate = @ + Cardinality(dups),
                            !.created = @ + Len(SyncBatch) - Cardinality(dups)]
    /\ synced' = synced \cup SyncBatchIds
    /\ create_idx' = create_idx + Len(SyncBatch)
    /\ \E w \in WriteAnswers :
          /\ w.raised = ""
          /\ s_trace' = [s_trace EXCEPT
                            !.requested = @ \cup SyncBatchIds,
                            !.posts = w.posts,
                            !.duplicates = @ + ReportedDuplicates(y_ledger, SyncBatch)]
    /\ UNCHANGED <<s_pc, s_run, dry_run, to_create, to_update, cache_file>>
    /\ UNCHANGED matchVars /\ UNCHANGED runVars
    /\ UNCHANGED emailVars /\ UNCHANGED catVars /\ UNCHANGED orderVars

\* One batch, the first call raises the rate-limit error and the call made
\* after the wait returns: every transaction is counted as created.
SyncCreateRetryOk ==
    /\ s_pc = "create" /\ ~dry_run /\ create_idx < Len(to_create)
    /\ y_ledger' = ledger_create(y_ledger,
                      [i \in 1..Len(SyncBatch) |-> SyncBatch[i].ynab_txn],
                      {}).ledger
    /\ s_stats' = [s_stats EXCEPT !.created = @ + Len(SyncBatch)]
    /\ synced' = synced \cup SyncBatchIds
    /\ create_idx' = create_idx + Len(SyncBatch)
    /\ \E w1 \in WriteAnswers : \E w2 \in WriteAnswers :
          /\ w1.raised = "429" /\ w2.raised = ""
          /\ s_trace' = [s_trace EXCEPT
                            !.requested = @ \cup SyncBatchIds,
                            !.failed = @ \/ s_run = 1,
                            !.posts = w1.posts + w2.posts,
                            !.duplicates = @ + ReportedDuplicates(y_ledger, SyncBatch)]
    /\ UNCHANGED <<s_pc, s_run, dry_run, to_create, to_update, cache_file>>
    /\ UNCHANGED matchVars /\ UNCHANGED runVars
    /\ UNCHANGED emailVars /\ UNCHANGED catVars /\ UNCHANGED orderVars

\* One batch, refused: the first call raises another error, or it raises
\* the rate-limit error and the call made after the wait raises too.
SyncCreateFail ==
    /\ s_pc = "create" /\ ~dry_run /\ create_idx < Len(to_create)
    /\ s_stats' = [s_stats EXCEPT !.failed = @ + Len(SyncBatch)]
    /\ create_idx' = create_idx + Len(SyncBatch)
    /\ \E w1 \in WriteAnswers : \E w2 \in WriteAnswers :
          /\ w1.raised # "" /\ w2.raised # ""
          /\ s_trace' = [s_trace EXCEPT
                            !.requested = @ \cup SyncBatchIds,
                            !.failed = @ \/ s_run = 1,
                            !.failed_ids = @ \cup SyncBatchIds,
                            !.posts = IF w1.raised = "429"
                                      THEN w1.posts + w2.posts ELSE w1.posts]
    /\ UNCHANGED <<y_ledger, s_pc, s_run, dry_run, synced, to_create,
                   to_update, cache_file>>
    /\ UNCHANGED matchVars /\ UNCHANGED runVars
    /\ UNCHANGED emailVars /\ UNCHANGED catVars /\ UNCHANGED orderVars

\* "Save updated sync status": the synced set goes back to the cache file.
SyncSave ==
    /\ s_pc = "create" /\ create_idx = Len(to_create)
    /\ cache_file' = [cache_file EXCEPT !.synced = synced]
    /\ s_pc' = "done"
    /\ UNCHANGED <<y_ledger, s_run, dry_run, synced, to_create, to_update,
                   create_idx, s_stats, s_trace>>
    /\ UNCHANGED matchVars /\ UNCHANGED runVars
    /\ UNCHANGED emailVars /\ UNCHANGED catVars /\ UNCHANGED orderVars

NextSync ==
    \/ SyncStart \/ SyncUpdates \/ SyncCreateDry \/ SyncCreateOk
    \/ SyncCreateRetryOk \/ SyncCreateFail \/ SyncSave

SpecSync == InitSync /\ [][NextSync]_vars

-----------------------------------------------------------------------------
(* main.py: the email pipeline.  Several invocations of the cloud function  *)
(* run at once; each handles one email.  They share the processed_emails    *)
(* collection and the budget's transactions.  An invocation takes one step  *)
(* per access to shared state; what it computes locally in between belongs  *)
(* to the step before.                                                      *)

\* main.is_email_processed: the document exists; False when the store fails.
is_email_processed(store, email_id, store_fails) ==
    IF store_fails THEN FALSE ELSE email_id \in store

\* Mutant of mark_email_processed: set() in place of create(), the
\* document is written whether it exists or not.
mark_email_processed_set(store, email_id, store_fails) ==
    IF store_fails THEN [ok |-> FALSE, store |-> store]
    ELSE [ok |-> TRUE, store |-> store \cup {email_id}]

\* api_writer.mark_email_processed: create() of the document; False when it
\* exists already and on any other exception.
mark_email_processed(store, email_id, store_fails) ==
    IF store_fails THEN [ok |-> FALSE, store |-> store]
    ELSE IF email_id \in store THEN [ok |-> FALSE, store |-> store]
    ELSE [ok |-> TRUE, store |-> store \cup {email_id}]

\* ynab.find_transaction_by_memo(budget_id, order_id): index of the first
\* transaction whose memo holds the order id, 0 for None.
find_transaction_by_memo(ledger, order_id) ==
    LET hits == {k \in 1..Len(ledger) : ledger[k].order = order_id}
    IN IF hits = {} THEN 0 ELSE CHOOSE k \in hits : \A j \in hits : k <= j

\* main.find_matching_transaction: the first unapproved Amazon transaction
\* with the order's total (every transaction of the model has that total and
\* a date within the tolerance), 0 for None.
find_matching_transaction(ledger) ==
    LET hits == {k \in 1..Len(ledger) : ~ledger[k].approved}
    IN IF hits = {} THEN 0 ELSE CHOOSE k \in hits : \A j \in hits : k <= j

-----------------------------------------------------------------------------
(* Specification SpecEmail: concurrent invocations over a few emails.       *)

MaxInvocations == 2

Invocations == 1..MaxInvocations

\* Two forwarded order emails, a correction reply, and an email posted to
\* process_email_http without an id.  All refer to the same order.
Emails ==
    {[id |-> "m1", order |-> "o1", correction |-> FALSE],
     [id |-> "m2", order |-> "o1", correction |-> FALSE],
     [id |-> "m3", order |-> "o1", correction |-> TRUE],
     [id |-> "",   order |-> "o1", correction |-> FALSE]}

\* A transaction the bank import put into the budget: no memo, unapproved.
\* creator is the invocation whose create_transaction made the transaction,
\* 0 for none.
ImportedTxn ==
    [id |-> 1, order |-> "", approved |-> FALSE, splits |-> FALSE, by |-> 0,
     creator |-> 0]

InitEmail ==
    /\ InitMain /\ InitMatchIdle /\ InitSyncIdle
    /\ InitCatIdle /\ InitOrderIdle
    /\ processed_emails = {}
    /\ e_ledger \in {<<>>, <<ImportedTxn>>}
    /\ \E emails \in [Invocations -> Emails] :
          e_inv = [i \in Invocations |->
                     [email |-> emails[i], pc |-> "start", claim |-> "none",
                      status |-> "", writes |-> 0, txn |-> 0]]

Finish(i, status) ==
    e_inv' = [e_inv EXCEPT ![i].pc = "done", ![i].status = status]

\* process_gmail_push for an order email: the check of processed_emails,
\* then the parse of the email in process_email_and_reply.  An email posted
\* to process_email_http goes to the parse at once.
EmailStart(i) ==
    /\ e_inv[i].pc = "start" /\ ~e_inv[i].email.correction
    /\ \E store_fails, parsed \in BOOLEAN :
         IF /\ e_inv[i].email.id # ""
            /\ is_email_processed(processed_emails, e_inv[i].email.id,
                                  store_fails)
         THEN Finish(i, "already_processed")
         ELSE IF ~parsed THEN Finish(i, "error")
         ELSE e_inv' = [e_inv EXCEPT ![i].pc = "claim"]
    /\ UNCHANGED <<processed_emails, e_ledger>>
    /\ UNCHANGED matchVars /\ UNCHANGED mainVars /\ UNCHANGED syncVars
    /\ UNCHANGED catVars /\ UNCHANGED orderVars

\* process_correction_reply up to the claim: our own automated reply is
\* skipped.
CorrectionStart(i) ==
    /\ e_inv[i].pc = "start" /\ e_inv[i].email.correction
    /\ \E own_reply \in BOOLEAN :
         IF own_reply THEN Finish(i, "skipped")
         ELSE e_inv' = [e_inv EXCEPT ![i].pc = "claim"]
    /\ UNCHANGED <<processed_emails, e_ledger>>
    /\ UNCHANGED matchVars /\ UNCHANGED mainVars /\ UNCHANGED syncVars
    /\ UNCHANGED catVars /\ UNCHANGED orderVars

\* "Atomically claim this email": if email_id and not
\* mark_email_processed(email_id, order_id): return skipped.
EmailClaim(i) ==
    /\ e_inv[i].pc = "claim"
    /\ LET next_pc == IF e_inv[i].email.correction THEN "correct"
                      ELSE "budget"
       IN IF e_inv[i].email.id = ""
          THEN /\ e_inv' = [e_inv EXCEPT ![i].pc = next_pc]
               /\ UNCHANGED processed_emails
          ELSE \E store_fails \in BOOLEAN :
               LET r == mark_email_processed(processed_emails,
                                             e_inv[i].email.id, store_fails)
               IN /\ processed_emails' = r.store
                  /\ IF r.ok
                     THEN e_inv' = [e_inv EXCEPT ![i].pc = next_pc,
                                                 ![i].claim = "won"]
                     ELSE e_inv' = [e_inv EXCEPT
                            ![i].pc = "done",
                            ![i].status = "skipped",
                            ![i].claim = IF store_fails THEN "error"
                                         ELSE "lost"]
    /\ UNCHANGED e_ledger
    /\ UNCHANGED matchVars /\ UNCHANGED mainVars /\ UNCHANGED syncVars
    /\ UNCHANGED catVars /\ UNCHANGED orderVars

\* The budget lookup and the check for a transaction whose memo holds the
\* order id.
EmailCheckExisting(i) ==
    /\ e_inv[i].pc = "budget"
    /\ \E budget_found \in BOOLEAN :
         IF ~budget_found THEN Finish(i, "error")
         ELSE IF find_transaction_by_memo(e_ledger, e_inv[i].email.order) # 0
         THEN Finish(i, "skipped")
         ELSE e_inv' = [e_inv EXCEPT ![i].pc = "match"]
    /\ UNCHANGED <<processed_emails, e_ledger>>
    /\ UNCHANGED matchVars /\ UNCHANGED mainVars /\ UNCHANGED syncVars
    /\ UNCHANGED catVars /\ UNCHANGED orderVars

\* find_matching_transaction(ynab, budget_id, order).
EmailMatch(i) ==
    /\ e_inv[i].pc = "match"
    /\ LET k == find_matching_transaction(e_ledger)
       IN IF k # 0
          THEN e_inv' = [e_inv EXCEPT ![i].pc = "apply",
                                      ![i].txn = e_ledger[k].id]
          ELSE e_inv' = [e_inv EXCEPT ![i].pc = "create"]
    /\ UNCHANGED <<processed_emails, e_ledger>>
    /\ UNCHANGED matchVars /\ UNCHANGED mainVars /\ UNCHANGED syncVars
    /\ UNCHANGED catVars /\ UNCHANGED orderVars

\* No matching transaction: writer.create_transaction with memo
\* "Order <id>", unapproved.
EmailCreate(i) ==
    /\ e_inv[i].pc = "create"
    /\ \E outcome \in {"created", "no_account", "create_failed"} :
         IF outcome = "created"
         THEN /\ e_ledger' = Append(e_ledger,
                    [id |-> Len(e_ledger) + 1, order |-> e_inv[i].email.order,
                     approved |-> FALSE, splits |-> FALSE, by |-> i,
                     creator |-> i])
              /\ e_inv' = [e_inv EXCEPT ![i].pc = "apply",
                                        ![i].txn = Len(e_ledger) + 1,
                                        ![i].writes = @ + 1]
         ELSE /\ Finish(i, "error")
              /\ UNCHANGED e_ledger
    /\ UNCHANGED processed_emails
    /\ UNCHANGED matchVars /\ UNCHANGED mainVars /\ UNCHANGED syncVars
    /\ UNCHANGED catVars /\ UNCHANGED orderVars

\* apply_categorization: the transaction becomes a split, memo
\* "Amazon Order <id>", approved; False when the write raises.
EmailApply(i) ==
    /\ e_inv[i].pc = "apply"
    /\ \E applied \in BOOLEAN :
         IF applied
         THEN /\ e_ledger' = [k \in 1..Len(e_ledger) |->
                    IF e_ledger[k].id = e_inv[i].txn
                    THEN [e_ledger[k] EXCEPT !.order = e_inv[i].email.order,
                                             !.approved = TRUE,
                                             !.splits = TRUE, !.by = i]
                    ELSE e_ledger[k]]
              /\ e_inv' = [e_inv EXCEPT ![i].pc = "done",
                                        ![i].status = "categorized",
                                        ![i].writes = @ + 1]
         ELSE /\ Finish(i, "error")
              /\ UNCHANGED e_ledger
    /\ UNCHANGED processed_emails
    /\ UNCHANGED matchVars /\ UNCHANGED mainVars /\ UNCHANGED syncVars
    /\ UNCHANGED catVars /\ UNCHANGED orderVars

\* process_correction_reply after the claim: reply text, budget, the
\* transaction of the order, the parsed request, apply_category_corrections.
CorrectionApply(i) ==
    /\ e_inv[i].pc = "correct"
    /\ \E outcome \in {"no_text", "no_budget", "clarify", "update",
                        "update_failed"} :
         LET k == find_transaction_by_memo(e_ledger, e_inv[i].email.order)
         IN IF outcome = "no_text" THEN
              Finish(i, "skipped") /\ UNCHANGED e_ledger
            ELSE IF outcome = "no_budget" \/ k = 0 THEN
              Finish(i, "error") /\ UNCHANGED e_ledger
            ELSE IF outcome = "clarify" THEN
              Finish(i, "clarification_sent") /\ UNCHANGED e_ledger
            ELSE IF outcome = "update_failed" THEN
              Finish(i, "error") /\ UNCHANGED e_ledger
            ELSE /\ e_ledger' = [e_ledger EXCEPT ![k].by = i]
                 /\ e_inv' = [e_inv EXCEPT ![i].pc = "done",
                                           ![i].status = "corrected",
                                           ![i].writes = @ + 1]
    /\ UNCHANGED processed_emails
    /\ UNCHANGED matchVars /\ UNCHANGED mainVars /\ UNCHANGED syncVars
    /\ UNCHANGED catVars /\ UNCHANGED orderVars

NextEmail ==
    \E i \in Invocations :
        \/ EmailStart(i) \/ CorrectionStart(i) \/ EmailClaim(i)
        \/ EmailCheckExisting(i) \/ EmailMatch(i) \/ EmailCreate(i)
        \/ EmailApply(i) \/ CorrectionApply(i)

SpecEmail == InitEmail /\ [][NextEmail]_vars

-----------------------------------------------------------------------------
(* Specification SpecCat: batch_categorize_items called on bounded inputs,  *)
(* chunk by chunk, against a classifier that answers each line as it likes  *)
(* or fails; the category cache may hold a manual correction beforehand.    *)

MaxCatItems == 3
MaxCalls == 2
MaxCorrections == 1

CatItemNames == {"Widget X", " widget x", "Diapers"}

ItemLists(n) == UNION {[1..k -> CatItemNames] : k \in 1..n}

\* all_items: one or two transactions with MaxCatItems items at most.
CatAllItems ==
    {<<[import_id |-> "t1", items |-> a]>> : a \in ItemLists(MaxCatItems)}
    \cup {<<[import_id |-> "t1", items |-> a], [import_id |-> "t2", items |-> b]>> :
             a \in ItemLists(MaxCatItems), b \in ItemLists(MaxCatItems)}

\* What the classifier may do with one line, and with one chunk of n items.
LineEnvs ==
    {Line("Toys", "", ""), Line("household", "", ""), Line("household", "", "Toys"),
     Line("Gadgets", "", ""), Line("Gadgets", "Electronics", ""),
     Line("Organic Kale, 12 oz", "", ""), Line("", "", "")}

ChunkEnvs(n) ==
    {[outcome |-> "ok", lines |-> l] : l \in [1..n -> LineEnvs]}
    \cup {[outcome |-> o, lines |-> <<>>] : o \in {"api_error", "rate_limit", "empty"}}

InitCat ==
    /\ InitMain /\ InitMatchIdle /\ InitSyncIdle /\ InitEmailIdle
    /\ InitCatIdle /\ InitOrderIdle

\* cache_category called for a manual correction, before the first call.
CatCorrect ==
    /\ cat_pc = "idle"
    /\ Cardinality(DOMAIN category_cache) < MaxCorrections
    /\ \E n \in CatItemNames :
          category_cache' = cache_category(category_cache, n, "Electronics")
    /\ UNCHANGED catVars /\ UNCHANGED orderVars
    /\ UNCHANGED txnVars /\ UNCHANGED matchVars
    /\ UNCHANGED syncVars /\ UNCHANGED emailVars

\* The call up to its chunk loop; a later call is given the same all_items.
CatStart ==
    /\ cat_pc \in {"idle", "done"}
    /\ cat_calls < MaxCalls
    /\ \E all_items \in (IF cat_calls = 0 THEN CatAllItems ELSE {cat_items}) :
          /\ Len(all_item_list(all_items, <<>>)) <= MaxCatItems
          /\ cat_items' = all_items
          /\ cat_st' = begin_categorize(all_items, category_cache)
    /\ cat_cache0' = category_cache
    /\ cat_k' = 1
    /\ cat_pc' = IF cat_st'.list = <<>> THEN "done" ELSE "chunks"
    /\ cat_calls' = cat_calls + 1
    /\ UNCHANGED category_cache /\ UNCHANGED orderVars
    /\ UNCHANGED txnVars /\ UNCHANGED matchVars
    /\ UNCHANGED syncVars /\ UNCHANGED emailVars

\* One iteration of the chunk loop.
CatChunk ==
    /\ cat_pc = "chunks"
    /\ cat_k <= num_chunks(cat_st.list)
    /\ LET chunk == chunk_at(cat_st.list, cat_k)
       IN \E env \in ChunkEnvs(Len(chunk)) :
             cat_st' = process_chunk(cat_st, chunk, env)
    /\ category_cache' = cat_st'.ccache
    /\ cat_k' = cat_k + 1
    /\ UNCHANGED <<cat_pc, cat_items, cat_cache0, cat_calls>> /\ UNCHANGED orderVars
    /\ UNCHANGED txnVars /\ UNCHANGED matchVars
    /\ UNCHANGED syncVars /\ UNCHANGED emailVars

\* After the last chunk: the cache is saved and the results are returned.
CatEnd ==
    /\ cat_pc = "chunks"
    /\ cat_k > num_chunks(cat_st.list)
    /\ cat_pc' = "done"
    /\ UNCHANGED <<cat_items, cat_cache0, cat_st, cat_k, cat_calls>> /\ UNCHANGED orderVars
    /\ UNCHANGED mainVars /\ UNCHANGED matchVars
    /\ UNCHANGED syncVars /\ UNCHANGED emailVars

NextCat == CatCorrect \/ CatStart \/ CatChunk \/ CatEnd

SpecCat == InitCat /\ [][NextCat]_vars

-----------------------------------------------------------------------------
(* categorizer.categorize_order and the correction replies of main.py.  An  *)
(* order is [items, total], an item [title, item_total], amounts in cents.  *)
(* A ledger transaction is [order_no, amount, subtransactions], a           *)
(* subtransaction [memo, category, amount, title, corrected]: order_no,     *)
(* title and corrected are history (the order the transaction was written   *)
(* for, the item the split stands for, whether a reply corrected it).       *)

\* i[:20], the memo apply_categorization gives the split of an item.
FirstTwenty ==
    << <<"Widget X", "Widget X">>,
       <<"Ergonomic Office Chair With Lumbar Support", "Ergonomic Office Cha">> >>

first_twenty(title) ==
    LET p == CHOOSE p \in SeqRange(FirstTwenty) : p[1] = title IN p[2]

\* item_match in memo.lower(), for the item texts a reply may name.
MemoWords == << <<"Widget X", "widget">>, <<"Ergonomic Office Cha", "ergonomic">> >>

memo_contains(memo, item_match) == <<memo, item_match>> \in SeqRange(MemoWords)

\* cat_names[0], the category of the items an unusable answer leaves.
FirstCategory == "Household Supplies"

\* Decimal.quantize(Decimal("0.01")) of n / d cents, n >= 0 and d > 0: the
\* nearest cent, a half going to the even one (ROUND_HALF_EVEN).
quantize(n, d) ==
    LET q == n \div d
        r == n % d
    IN IF 2 * r > d \/ (2 * r = d /\ q % 2 = 1) THEN q + 1 ELSE q

\* Mutant of proportional_amounts: the last item gets its share like the
\* others, no remainder.
proportional_amounts_no_remainder(item_totals, total) ==
    LET num_items == Len(item_totals)
        sum_item_totals == SumSeq(item_totals)
        has_zero_prices == \E i \in 1..num_items : item_totals[i] <= 0
    IN [i \in 1..num_items |->
          IF has_zero_prices \/ sum_item_totals <= 0
          THEN quantize(total, num_items)
          ELSE quantize(item_totals[i] * total, sum_item_totals)]

\* "Calculate proportional amounts": the amount of every assignment, given
\* the item totals in the order of item_categories and order.total.
proportional_amounts(item_totals, total) ==
    LET num_items == Len(item_totals)
        sum_item_totals == SumSeq(item_totals)
        has_zero_prices == \E i \in 1..num_items : item_totals[i] <= 0
        share(i) == IF has_zero_prices \/ sum_item_totals <= 0
                    THEN quantize(total, num_items)
                    ELSE quantize(item_totals[i] * total, sum_item_totals)
        running_total == SumSeq([i \in 1..(num_items - 1) |-> share(i)])
    IN [i \in 1..num_items |->
          IF i = num_items THEN total - running_total ELSE share(i)]

\* The values of uncategorized_items = {item.title[:80]: item for item in
\* items_to_categorize}: one item per title, at the place of the first item
\* with that title, the last such item being kept.
RECURSIVE uncategorized_values(_, _)
uncategorized_values(items, i) ==
    IF i > Len(items) THEN <<>>
    ELSE IF \E j \in 1..(i - 1) : items[j].title = items[i].title
    THEN uncategorized_values(items, i + 1)
    ELSE LET k == CHOOSE k \in i..Len(items) :
                    /\ items[k].title = items[i].title
                    /\ \A l \in (k + 1)..Len(items) : items[l].title # items[i].title
         IN <<items[k]>> \o uncategorized_values(items, i + 1)

\* categorize_order: its list of (item, category) pairs, the cached items
\* first, and the assignments built from it.  answer is what the classifier
\* returns for the request.
categorize_order(order, ccache, answer) ==
    LET is_cached(it) == get_cached_category(ccache, it.title) # ""
        not_cached(it) == get_cached_category(ccache, it.title) = ""
        cached_items == SelectSeq(order.items, is_cached)
        new_items == SelectSeq(order.items, not_cached)
        cached == [i \in 1..Len(cached_items) |-> cached_items[i].title]
        items_to_ask == [i \in 1..Len(new_items) |-> new_items[i].title]
        assigned_items == IF answer.outcome = "json"
                          THEN uncategorized_values(new_items, 1)
                          ELSE new_items
        merged == cached_items \o assigned_items
        amounts == proportional_amounts(
                       [i \in 1..Len(merged) |-> merged[i].item_total], order.total)
        cat_name == IF answer.outcome = "json" THEN answer.category ELSE FirstCategory
        RECURSIVE cache_all(_, _)
        cache_all(c, i) ==
            IF i > Len(items_to_ask) THEN c
            ELSE cache_all(cache_category(c, items_to_ask[i], cat_name), i + 1)
    IN [asked  |-> items_to_ask,
        ccache |-> IF answer.outcome = "json" THEN cache_all(ccache, 1) ELSE ccache,
        item_categories |->
            [i \in 1..Len(cached) |->
                [title |-> cached[i], category |-> get_cached_category(ccache, cached[i])]]
            \o [i \in 1..Len(assigned_items) |->
                   [title |-> assigned_items[i].title, category |-> cat_name]],
        item_totals |-> [i \in 1..Len(merged) |-> merged[i].item_total],
        amounts |-> amounts,
        total |-> order.total]

\* The splits apply_categorization writes: one per assignment, each an
\* outflow, the last one adjusted to the amount of the transaction.
apply_categorization(item_categories, amounts, transaction_amount) ==
    LET n == Len(item_categories)
        total_assigned == SumSeq([i \in 1..n |-> 0 - Abs(amounts[i])])
        diff == transaction_amount - total_assigned
    IN [i \in 1..n |->
        [memo |-> IF item_categories[i].category = "Groceries" /\ n = 1
                  THEN "Groceries" ELSE first_twenty(item_categories[i].title),
         category  |-> item_categories[i].category,
         amount    |-> (0 - Abs(amounts[i])) + (IF i = n THEN diff ELSE 0),
         title     |-> item_categories[i].title,
         corrected |-> FALSE]]

\* The first subtransaction whose memo contains the item of the change; 0
\* when there is none.
matching_sub(subtransactions, change) ==
    IF \E i \in 1..Len(subtransactions) : memo_contains(subtransactions[i].memo, change.item)
    THEN CHOOSE i \in 1..Len(subtransactions) :
           /\ memo_contains(subtransactions[i].memo, change.item)
           /\ \A j \in 1..(i - 1) : ~memo_contains(subtransactions[j].memo, change.item)
    ELSE 0

apply_category_corrections(subtransactions, change) ==
    LET i == matching_sub(subtransactions, change)
    IN IF i = 0 THEN subtransactions
       ELSE [subtransactions EXCEPT ![i].category = change.new_category,
                                    ![i].corrected = TRUE]

\* The cache entry is written under the memo of the subtransaction.
update_category_cache_from_corrections(ccache, change, subtransactions) ==
    LET i == matching_sub(subtransactions, change)
    IN IF i = 0 THEN ccache
       ELSE cache_category(ccache, subtransactions[i].memo, change.new_category)

\* The corrections applied so far: item title -> corrected category.
Corrections(ledger) ==
    LET subs == UNION {SeqRange(ledger[k].subtransactions) : k \in 1..Len(ledger)}
        done == {s \in subs : s.corrected}
    IN [t \in {s.title : s \in done} |-> (CHOOSE s \in done : s.title = t).category]

-----------------------------------------------------------------------------
(* Specification SpecOrder: orders categorized by the email pipeline, and   *)
(* replies that correct the category of an item of an earlier order.        *)

MaxOrders == 2
MaxReplies == 2

OrderTitles == {"Widget X", "Ergonomic Office Chair With Lumbar Support"}

\* The items of the orders: each title has one price; an order's total is
\* what its items cost plus one dollar of shipping.
OrderItems ==
    {[title |-> "Widget X", item_total |-> 1000],
     [title |-> "Ergonomic Office Chair With Lumbar Support", item_total |-> 2000]}
ShippingCents == 100
ItemTotals(items) == [i \in 1..Len(items) |-> items[i].item_total]
Titles(items) == [i \in 1..Len(items) |-> items[i].title]
Orders ==
    {[items |-> its, total |-> SumSeq(ItemTotals(its)) + ShippingCents] :
        its \in UNION {[1..n -> OrderItems] : n \in 1..2}}
OrderAnswers ==
    {[outcome |-> "json", category |-> "Toys"], [outcome |-> "empty", category |-> ""],
     [outcome |-> "bad_json", category |-> ""], [outcome |-> "raise", category |-> ""]}
Changes ==
    {[item |-> w, new_category |-> "Electronics"] : w \in {"widget", "ergonomic"}}

InitOrder ==
    /\ InitMain /\ InitMatchIdle /\ InitSyncIdle /\ InitEmailIdle
    /\ InitCatIdle /\ InitOrderIdle

\* An order email: the order is categorized, the splits are written to the
\* transaction of the order (amount -order.total).  The classifier request
\* may raise, the write to the ledger may fail.
Categorize(orders, max_orders) ==
    /\ Len(o_runs) < max_orders
    /\ \E order \in orders : \E answer \in OrderAnswers : \E written \in BOOLEAN :
          LET r == categorize_order(order, category_cache, answer)
              raised == r.asked # <<>> /\ answer.outcome = "raise"
              splits == apply_categorization(r.item_categories, r.amounts,
                                             0 - order.total)
          IN /\ r.asked = <<>> => answer.outcome = "json"
             /\ raised => ~written
             /\ category_cache' = IF raised THEN category_cache ELSE r.ccache
             /\ o_runs' = Append(o_runs,
                   [order |-> Titles(order.items), asked |-> r.asked,
                    item_categories |-> IF raised THEN <<>> ELSE r.item_categories,
                    corrections |-> Corrections(o_ledger),
                    item_totals |-> r.item_totals,
                    total |-> order.total,
                    amounts |-> IF raised THEN <<>> ELSE r.amounts,
                    written |-> IF written THEN splits ELSE <<>>])
             /\ o_ledger' = IF written
                            THEN Append(o_ledger,
                                   [order_no |-> Len(o_runs) + 1,
                                    amount |-> 0 - order.total,
                                    subtransactions |-> splits])
                            ELSE o_ledger
    /\ UNCHANGED o_replies
    /\ UNCHANGED txnVars /\ UNCHANGED matchVars /\ UNCHANGED catVars
    /\ UNCHANGED syncVars /\ UNCHANGED emailVars

\* A reply that asks for one change on the transaction of an earlier order:
\* the transaction is deleted and created again with the new category, then
\* the category cache is updated.
CorrectionReply ==
    /\ o_replies < MaxReplies
    /\ \E k \in 1..Len(o_ledger) : \E change \in Changes :
       \E outcome \in {"ok", "delete_failed", "create_failed"} :
          LET subs == o_ledger[k].subtransactions
              found == matching_sub(subs, change) # 0
              new_subs == apply_category_corrections(subs, change)
          IN /\ ~found => outcome = "ok"
             /\ o_ledger' =
                  IF ~found \/ outcome = "delete_failed" THEN o_ledger
                  ELSE IF outcome = "create_failed"
                  THEN SubSeq(o_ledger, 1, k - 1) \o SubSeq(o_ledger, k + 1, Len(o_ledger))
                  ELSE [o_ledger EXCEPT ![k].subtransactions = new_subs]
             /\ category_cache' =
                  IF found /\ outcome = "ok"
                  THEN update_category_cache_from_corrections(category_cache, change, new_subs)
                  ELSE category_cache
    /\ o_replies' = o_replies + 1
    /\ UNCHANGED o_runs
    /\ UNCHANGED txnVars /\ UNCHANGED matchVars /\ UNCHANGED catVars
    /\ UNCHANGED syncVars /\ UNCHANGED emailVars

CategorizeOrder == Categorize(Orders, MaxOrders)

NextOrder == CategorizeOrder \/ CorrectionReply

SpecOrder == InitOrder /\ [][NextOrder]_vars

-----------------------------------------------------------------------------
(* Specification SpecAmounts: categorize_order applied to one order whose   *)
(* item prices and total are drawn from bounded sets, with an empty         *)
(* category cache or one that knows an item.                                *)

MaxOrderItems == 3

PricedItemTotals == {0, 100, 333, 1000}
PricedOrderTotals == {1, 100, 1000}

PricedOrders ==
    {[items |-> its, total |-> t] :
        its \in UNION {[1..n -> [title : OrderTitles, item_total : PricedItemTotals]] :
                         n \in 1..MaxOrderItems},
        t \in PricedOrderTotals}

InitAmounts ==
    /\ InitMatchIdle /\ InitSyncIdle /\ InitEmailIdle
    /\ InitCatIdle /\ InitOrderIdle
    /\ pc = "idle" /\ run = 0 /\ batch = FALSE /\ rows = <<>> /\ rowIdx = 0
    /\ cache_file = [exists |-> FALSE, transactions |-> <<>>, synced |-> {}]
    /\ cache = <<>> /\ loaded = <<>> /\ existing_ids = {}
    /\ pending_txns = <<>> /\ stats = ZeroStats
    /\ saved = FALSE /\ prev_saved = FALSE
    /\ category_cache \in {<<>>, cache_category(<<>>, "Widget X", "Toys")}
    /\ pending_batches = <<>>

CategorizeAnyOrder == Categorize(PricedOrders, 1)

NextAmounts == CategorizeAnyOrder

SpecAmounts == InitAmounts /\ [][NextAmounts]_vars

-----------------------------------------------------------------------------
(* Properties of the matcher (SpecMatch), stated without the loops.         *)

m_shipments == m_order.shipments
m_abs == Abs(m_charge.amount)

\* Shipment i lies in the date window of the charge.
InDateWindow(i) ==
    /\ m_charge.date # NoDate
    /\ m_shipments[i].ship_date # NoDate
    /\ m_charge.date - m_shipments[i].ship_date \in 0..7

ShipmentWithinDollar(i) ==
    m_shipments[i].total - m_abs \in -99..99

ItemWithinDollar(j) ==
    m_order.items[j].total - m_abs \in -99..99

DateCandidates == {i \in 1..Len(m_shipments) : InDateWindow(i)}
AmountCandidates == {i \in 1..Len(m_shipments) : ShipmentWithinDollar(i)}
ItemCandidates == {j \in 1..Len(m_order.items) : ItemWithinDollar(j)}

Least(S) == CHOOSE x \in S : \A y \in S : x <= y

\* C5: the strategies are tried in strict precedence order -- date proximity,
\* first shipment within $1.00, first single item within $1.00, best fit --
\* and the first one that finds something decides the result; a date match
\* wins even when another shipment's total equals the charge.
C5_StrictPrecedence ==
    m_out # NotRun =>
      LET s == m_out.match.matched_shipment
          j == m_out.match.matched_item
      IN /\ DateCandidates # {} => s \in DateCandidates /\ j = 0
         /\ DateCandidates = {} /\ AmountCandidates # {} =>
               s = Least(AmountCandidates) /\ j = 0
         /\ DateCandidates = {} /\ AmountCandidates = {}
               /\ ItemCandidates # {} =>
               s = 0 /\ j = Least(ItemCandidates)
         /\ DateCandidates = {} /\ AmountCandidates = {}
               /\ ItemCandidates = {} =>
               /\ j = 0
               /\ s \in 1..Len(m_shipments)
               /\ \A k \in 1..Len(m_shipments) :
                     Abs(m_shipments[s].total - m_abs)
                       <= Abs(m_shipments[k].total - m_abs)

\* A date match that wins over another shipment whose total equals the charge.
C5_Witness ==
    /\ m_out # NotRun
    /\ m_out.match.matched_shipment \in DateCandidates
    /\ m_shipments[m_out.match.matched_shipment].total # m_abs
    /\ \E k \in 1..Len(m_shipments) :
          k \notin DateCandidates /\ m_shipments[k].total = m_abs

\* C6: date proximity selects, among the shipments with a known date, one
\* with 0 <= charge date - ship date <= 7 that minimizes the difference (the
\* first one on a tie), and nothing when no shipment lies in the window; for
\* a charge of day 10 and shipments of days 7 and 9, the one of day 9.
C6_DateProximity ==
    m_out # NotRun =>
      LET b == m_out.match.best_match
          diff(i) == m_charge.date - m_shipments[i].ship_date
      IN /\ b = 0 <=> DateCandidates = {}
         /\ b # 0 =>
               /\ b \in DateCandidates
               /\ \A k \in DateCandidates :
                     diff(b) < diff(k) \/ (diff(b) = diff(k) /\ b <= k)
         /\ (m_charge.date = 10
               /\ {m_shipments[i].ship_date : i \in 1..Len(m_shipments)} = {7, 9})
             => m_shipments[b].ship_date = 9

C6_Witness ==
    /\ m_out # NotRun
    /\ m_charge.date = 10
    /\ {m_shipments[i].ship_date : i \in 1..Len(m_shipments)} = {7, 9}
    /\ m_out.match.best_match # 0
    /\ m_shipments[m_out.match.best_match].ship_date = 9

\* C7 (as claimed): an order with at least one shipment always ends itemized;
\* the "no shipment match" outcome needs an order without shipments.
C7_ShipmentsImplyItemized ==
    m_out # NotRun /\ m_shipments # <<>> => m_out.items # <<>>

-----------------------------------------------------------------------------
(* Properties of process_transactions.main (Spec).                          *)


\* The records the current run has added to the cache it loaded.
AddedRecords == SubSeq(cache, Len(loaded) + 1, Len(cache))

\* Row r is a charge of Amazon: an Amazon payee and an amount that parses.
ChargeRow(r) == is_amazon_transaction(r.payee) /\ parse_amount(r).ok

\* Record t carries the order id, absolute amount and direction of row r.
SameCharge(t, r) ==
    /\ t.order_id = r.memo.order
    /\ Abs(t.amount) = Abs(parse_amount(r).amount)
    /\ t.is_refund = (r.inflow.k # "empty")

\* Rows handled so far by the current run that satisfy P.
HandledRows(P(_)) == {i \in 1..rowIdx : P(rows[i])}

KnownCharge(r) ==
    /\ ChargeRow(r) /\ r.memo.order # ""
    /\ \E t \in SeqRange(loaded) : SameCharge(t, r)

\* C1 (as claimed): the splits of a charge itemized through the default path
\* (items matched, neither tip nor grocery) sum to the charge amount exactly.
C1_SplitsSumToCharge ==
    \A t \in SeqRange(cache) :
      t.items_with_amounts # <<>> /\ ~t.is_grocery /\ t.splits # <<>>
        => SumSeq(Amounts(t.splits)) = t.amount

\* C2: the import id is a function of (order id, absolute amount, direction)
\* alone, and a run over the same input that loads the cache the previous run
\* saved adds no transaction: every charge already in the cache is skipped
\* and counted as cached, and the cached transactions stay as they were.
C2_RerunAddsNothing ==
    /\ \A t1, t2 \in SeqRange(cache) \cup SeqRange(pending_txns) :
          (/\ t1.order_id = t2.order_id
           /\ Abs(t1.amount) = Abs(t2.amount)
           /\ t1.is_refund = t2.is_refund) => t1.import_id = t2.import_id
    /\ SubSeq(cache, 1, Len(loaded)) = loaded
    /\ stats.cached = Cardinality(HandledRows(KnownCharge))
    /\ run >= 2 /\ prev_saved =>
          /\ cache = loaded /\ pending_txns = <<>>
          /\ stats.cached = Cardinality(HandledRows(
                LAMBDA r : ChargeRow(r) /\ r.memo.order # ""))

C2_Witness ==
    /\ run = 2 /\ prev_saved /\ pc = "done"
    /\ stats.cached = 2 /\ Len(cache) = 2 /\ cache = cache_file.transactions

\* C8 (as claimed): every Amazon charge row of the input has its record in
\* the transaction cache at the end of the run.
C8_EveryChargeRowRecorded ==
    run = 1 /\ pc = "done" =>
      Len(cache) = Cardinality(HandledRows(ChargeRow))

OrderAbsent(r) ==
    /\ ChargeRow(r) /\ r.memo.order # ""
    /\ r.memo.order \notin DOMAIN order_history

C10_TipAlwaysDeliveryFee ==
    run = 1 =>
      \A i \in HandledRows(LAMBDA r : /\ ChargeRow(r) /\ r.memo.order # ""
                                       /\ "amazon tips" \in r.payee) :
        \E t \in SeqRange(cache) :
          /\ SameCharge(t, rows[i])
          /\ Len(t.splits) = 1
          /\ t.splits[1].category = "Delivery Fee"
          /\ t.splits[1].amount = t.amount
          /\ t.items = <<>>

-----------------------------------------------------------------------------
(* Properties of the sync engine (SpecSync)                                 *)

\* The second run is over, and the first one was a real run whose requests
\* were all answered.
SecondSyncDone ==
    /\ s_run = 2 /\ s_pc = "done"
    /\ ~s_trace.failed /\ ~s_trace.dry

\* C3 (as claimed): a second sync over the same cache file, the ledger
\* having kept what the first one wrote, creates nothing: every cached
\* transaction is counted duplicate or skipped, and no create request names
\* an import id the ledger already held.
C3_ResyncCreatesNothing ==
    SecondSyncDone =>
      /\ s_stats.created = 0
      /\ s_stats.duplicate + s_stats.skipped = Len(cache_file.transactions)
      /\ s_trace.requested \cap s_trace.written = {}

\* C3, the part about creation alone: the second sync counts no
\* transaction as created and requests no create for an id already written.
C3_NoSecondCreate ==
    SecondSyncDone =>
      /\ s_stats.created = 0
      /\ s_trace.requested \cap s_trace.written = {}

\* The first sync created transactions and the second one has finished.
C3_ResyncReached ==
    /\ SecondSyncDone
    /\ s_trace.written # {}
    /\ Len(y_ledger) = 2
    /\ s_stats.skipped = 2

-----------------------------------------------------------------------------
(* Properties of the email pipeline (SpecEmail)                             *)

\* The invocations handling the email with this id, and those among them
\* whose claim succeeded.
Handling(email_id) == {i \in DOMAIN e_inv : e_inv[i].email.id = email_id}

Claimants(email_id) == {i \in Handling(email_id) : e_inv[i].claim = "won"}

ClaimedIds == {e.id : e \in Emails} \ {""}

\* C4: for every email id, at most one invocation's claim succeeds, and
\* exactly one as soon as the store has answered a claim for it; every
\* other invocation handling that email has written nothing to the ledger,
\* and one whose claim was refused has ended with status "skipped".
C4_OneClaimPerEmail ==
    \A id \in ClaimedIds :
      /\ Cardinality(Claimants(id)) <= 1
      /\ (\E i \in Handling(id) : e_inv[i].claim \in {"won", "lost"})
           => Cardinality(Claimants(id)) = 1
      /\ id \in processed_emails <=> Claimants(id) # {}
      /\ \A i \in Handling(id) \ Claimants(id) :
           /\ e_inv[i].writes = 0
           /\ e_inv[i].claim \in {"lost", "error"}
                => e_inv[i].pc = "done" /\ e_inv[i].status = "skipped"

\* All invocations raced for one email: each passed the check of
\* processed_emails, one claimed it and wrote the categorized transaction,
\* every other one was refused.
C4_Witness ==
    \E id \in ClaimedIds :
      /\ Handling(id) = Invocations
      /\ \E i \in Invocations :
           /\ e_inv[i].claim = "won" /\ e_inv[i].status = "categorized"
           /\ e_inv[i].writes = 2
           /\ \A j \in Invocations \ {i} :
                e_inv[j].claim = "lost" /\ e_inv[j].status = "skipped"

-----------------------------------------------------------------------------
(* Properties of the transaction builder (Spec): grocery charges            *)

\* Row r is a charge with matched items of a known order, not a tip.
MatchedCharge(r) ==
    /\ ChargeRow(r) /\ r.memo.order \in DOMAIN order_history
    /\ "amazon tips" \notin r.payee
    /\ LET order_data == order_history[r.memo.order]
           amount == parse_amount(r).amount
           m == match_shipment(r.date, amount, order_data)
       IN \/ m.matched_item # 0
          \/ /\ m.matched_shipment # 0
             /\ order_data.shipments[m.matched_shipment].total > 0

\* Row r is grocery: by its matched shipment, by its order, or by its payee.
GroceryCharge(r) ==
    /\ MatchedCharge(r)
    /\ LET order_data == order_history[r.memo.order]
           m == match_shipment(r.date, parse_amount(r).amount, order_data)
       IN \/ /\ m.matched_shipment # 0
             /\ order_data.shipments[m.matched_shipment].is_grocery
          \/ order_data.is_grocery
          \/ is_grocery_transaction(r.payee)

GroceryRecord(t) ==
    /\ Len(t.splits) = 1
    /\ t.splits[1].category = "Groceries"
    /\ t.splits[1].amount = t.amount
    /\ t.grocery_items = t.items_with_amounts

\* C11: a grocery charge with matched items gets exactly one split,
\* "Groceries", with the amount of the charge, whatever its number of items;
\* its items are kept beside it and never enter the categorization queue.
C11_GrocerySingleSplit ==
    /\ \A t \in SeqRange(pending_txns) : ~t.is_grocery
    /\ \A t \in SeqRange(cache) :
          t.is_grocery /\ t.items_with_amounts # <<>> => GroceryRecord(t)
    /\ run = 1 =>
          /\ Cardinality({i \in 1..Len(cache) :
                  cache[i].is_grocery /\ cache[i].items_with_amounts # <<>>})
               = Cardinality(HandledRows(GroceryCharge))
          /\ Len(pending_txns) = Cardinality(HandledRows(
                LAMBDA r : MatchedCharge(r) /\ ~GroceryCharge(r)))

\* A charge with an Amazon payee, grocery by its order, two items: one split.
C11_Witness ==
    /\ pc = "done" /\ run = 1
    /\ \E t \in SeqRange(cache) :
          /\ t.payee = "Amazon.com" /\ t.is_grocery
          /\ Len(t.items_with_amounts) = 2
          /\ GroceryRecord(t)

-----------------------------------------------------------------------------
(* Properties of batch_categorize_items (SpecCat).                          *)

\* The items of the current call, and the category the call returns for an
\* item of a transaction (item_to_category of main), "" when it returns none.
CallItems == UNION {SeqRange(cat_items[k].items) : k \in 1..Len(cat_items)}

ReturnedCategory(id, n) ==
    LET m == item_to_category(cat_st.results[id])
    IN IF n \in DOMAIN m THEN m[n] ELSE ""

\* The items a cache entry covered when the call began keep the cached
\* category and are in no request of the call.
C12_CachedAtStartNotAsked ==
    cat_pc # "idle" =>
      \A k \in 1..Len(cat_items) : \A n \in SeqRange(cat_items[k].items) :
        get_cached_category(cat_cache0, n) # "" =>
          /\ ReturnedCategory(cat_items[k].import_id, n)
               = get_cached_category(cat_cache0, n)
          /\ \A i \in 1..Len(cat_st.requests) :
                n \notin SeqRange(cat_st.requests[i].items)

\* C12: an item whose normalized name has an entry in the category cache,
\* put there by a correction or by an earlier categorization of the same or
\* of a previous run, is returned with the cached category and is in no
\* classifier request.
C12_CachedNeverAsked ==
    /\ C12_CachedAtStartNotAsked
    /\ \A i \in 1..Len(cat_st.requests) : cat_st.requests[i].cached = {}

\* The same for the chunk requests alone: no numbered list sent to the
\* classifier names an item the cache covers by then.
C12_ChunkRequestsUncached ==
    \A i \in 1..Len(cat_st.requests) :
        cat_st.requests[i].kind = "chunk" => cat_st.requests[i].cached = {}

\* The categories the call has filed items under.
FiledCategories ==
    UNION {{cat_st.results[id][k].category : k \in 1..Len(cat_st.results[id])} :
              id \in DOMAIN cat_st.results}

\* A retry asks for one item alone, and what the call logs as unmatched is
\* not a category of the budget.
C13_RetrySingleItem ==
    /\ \A i \in 1..Len(cat_st.requests) :
          cat_st.requests[i].kind = "retry" => Len(cat_st.requests[i].items) = 1
    /\ cat_st.unmatched \cap YnabCategories = {}

\* C13: an item whose answer matches no valid category is retried alone;
\* if the retry fails too it is logged as unmatched and gets the configured
\* fallback category: every category an item is filed under, or cached
\* with, is a valid category or the fallback.
C13_UnmatchedGetsFallback ==
    /\ C13_RetrySingleItem
    /\ FiledCategories \subseteq YnabCategories \cup {get_fallback_category}
    /\ \A key \in DOMAIN category_cache :
          category_cache[key] \in YnabCategories \cup {get_fallback_category}

\* The chunk requests of the call so far.
ChunkRequests ==
    {i \in 1..Len(cat_st.requests) : cat_st.requests[i].kind = "chunk"}

\* A failed chunk does not end the call and writes nothing to the category
\* cache: every chunk of the list is requested before the call returns, and
\* a call all of whose chunks failed leaves the cache as it found it.
C14_FailureConfined ==
    /\ cat_pc = "done" => Cardinality(ChunkRequests) = num_chunks(cat_st.list)
    /\ (cat_pc # "idle" /\ Len(cat_st.errors) = Cardinality(ChunkRequests))
          => category_cache = cat_cache0

\* C15: a quota or rate-limit error of the classifier halts the run: the
\* request that raised it is the last one of the call, and the call does not
\* return results as if nothing had happened.
C15_RateLimitHalts ==
    \A j \in 1..Len(cat_st.errors) :
        cat_st.errors[j].error = "rate_limit" =>
          /\ Len(cat_st.requests) = cat_st.errors[j].request
          /\ cat_pc # "done"

-----------------------------------------------------------------------------
(* Properties of the transaction builder (Spec): failed chunks.             *)

\* The items of a record of the transaction cache that went through the
\* synchronous pass 2 and have no entry in the category cache: the
\* classifier gave no category for them.
UncategorizedItems(t) ==
    IF t.is_grocery \/ t.splits = <<>> THEN {}
    ELSE {n \in {t.items_with_amounts[i].base_name :
                    i \in 1..Len(t.items_with_amounts)} :
             get_cached_category(category_cache, n) = ""}

\* C14: the items of a failed chunk stay uncategorized and retryable: a
\* later run over the same input submits them to the classifier again.
C14_FailedItemsResubmitted ==
    (run >= 2 /\ Pass1Over) =>
      \A i \in 1..Len(loaded) :
        UncategorizedItems(loaded[i])
          \subseteq uncached_items(items_to_categorize(pending_txns), category_cache)

-----------------------------------------------------------------------------
(* Properties of sync_transactions (SpecSync): transactions the ledger      *)
(* already holds.                                                           *)

\* The memo/category content of a list of subtransactions.
SplitContent(subs) ==
    [i \in 1..Len(subs) |-> [memo |-> subs[i].memo, category_id |-> subs[i].category_id]]

QueuedForUpdate(txn, transaction_id) ==
    \E u \in 1..Len(to_update) :
        to_update[u].txn = txn /\ to_update[u].transaction_id = transaction_id

\* C16: after the first pass, a cached transaction with splits whose import
\* id the ledger holds is in no create request; it is queued for an update
\* of that ledger transaction exactly when its memo/category content
\* differs from the remote one, a changed category under the same memo
\* included.
C16_ChangedContentUpdated ==
    s_pc = "update" =>
      LET existing == get_existing_transactions(y_ledger)
      IN \A k \in 1..Len(cache_file.transactions) :
           LET txn == cache_file.transactions[k]
               id == txn.import_id
               subs == build_subtransactions(txn)
           IN (/\ txn.age # "ancient" /\ subs # <<>>
               /\ id \in DOMAIN existing
               /\ y_ledger[existing[id]].import_id = id) =>
                LET remote == y_ledger[existing[id]]
                IN /\ \A c \in 1..Len(to_create) : to_create[c].txn.import_id # id
                   /\ QueuedForUpdate(txn, remote.id)
                        <=> SplitContent(subs) # SplitContent(remote.subtransactions)

\* The same for the memos alone, which is what subtransactions_differ
\* compares.
C16_ChangedMemoUpdated ==
    s_pc = "update" =>
      LET existing == get_existing_transactions(y_ledger)
      IN \A k \in 1..Len(cache_file.transactions) :
           LET txn == cache_file.transactions[k]
               id == txn.import_id
               subs == build_subtransactions(txn)
           IN (/\ txn.age # "ancient" /\ subs # <<>>
               /\ id \in DOMAIN existing
               /\ y_ledger[existing[id]].import_id = id) =>
                LET remote == y_ledger[existing[id]]
                IN /\ \A c \in 1..Len(to_create) : to_create[c].txn.import_id # id
                   /\ QueuedForUpdate(txn, remote.id)
                        <=> [i \in 1..Len(subs) |-> subs[i].memo]
                              # [i \in 1..Len(remote.subtransactions) |->
                                   remote.subtransactions[i].memo]

\* The transactions of a failed batch are counted as failed, stay out of
\* the synced set, and the next run finds them to create again unless the
\* ledger holds them.
C17_FailedBatchNotSynced ==
    /\ s_trace.failed_ids \cap synced = {}
    /\ s_stats.failed >= Cardinality(s_trace.failed_ids)

\* C17: a batch refused with a rate-limit error is sent again exactly once:
\* no batch is sent more than twice, and the transactions of a batch that
\* failed are counted as failed and not added to the synced set.
C17_BatchRetriedOnce ==
    /\ s_trace.posts <= 2
    /\ C17_FailedBatchNotSynced

C18_DuplicatesCountedWithoutRetry ==
    s_trace.posts <= WriteAttempts => s_stats.duplicate = s_trace.duplicates

-----------------------------------------------------------------------------
(* Properties of the email pipeline's categorizer (SpecOrder).              *)

\* C19: once a reply has corrected the category of an item, a later
\* categorize_order of an order with the same item title uses the corrected
\* category and does not ask the classifier for it.
C19_CorrectionUsedLater ==
    \A j \in 1..Len(o_runs) :
      LET r == o_runs[j]
      IN \A t \in SeqRange(r.order) \cap DOMAIN r.corrections :
           /\ t \notin SeqRange(r.asked)
           /\ \A i \in 1..Len(r.item_categories) :
                 r.item_categories[i].title = t =>
                   r.item_categories[i].category = r.corrections[t]

\* The same for the titles of 20 characters at most, which the memo of the
\* split holds in full.
C19_ShortTitleCorrectionUsed ==
    \A j \in 1..Len(o_runs) :
      LET r == o_runs[j]
      IN \A t \in SeqRange(r.order) \cap DOMAIN r.corrections :
           first_twenty(t) = t =>
             /\ t \notin SeqRange(r.asked)
             /\ \A i \in 1..Len(r.item_categories) :
                   r.item_categories[i].title = t =>
                     r.item_categories[i].category = r.corrections[t]

-----------------------------------------------------------------------------
(* Properties of the proportional allocation (SpecAlloc).                   *)

\* The charge was matched to a shipment with a positive total.
Allocated ==
    /\ m_out # NotRun
    /\ m_out.match.matched_shipment # 0
    /\ m_shipments[m_out.match.matched_shipment].total > 0

\* C20: each item of the matched shipment gets its total times
\* abs(charge) / shipment total, rounded to the cent, whatever its quantity;
\* the quantity only puts "N x" before the display name.  A $200.00
\* shipment of $120.00 and $80.00 charged $140.00 gives $84.00 and $56.00.
C20_ProportionalAllocation ==
    Allocated =>
      LET shipment == m_shipments[m_out.match.matched_shipment]
      IN /\ Len(m_out.items) = Len(shipment.items)
         /\ \A i \in 1..Len(shipment.items) :
              LET item == shipment.items[i]
                  a == m_out.items[i]
              IN /\ 2 * Abs(a.amount * shipment.total - item.total * m_abs)
                      <= shipment.total
                 /\ a.base_name = item.name
                 /\ a.name = [prefix |-> IF item.qty > 1 THEN item.qty ELSE 0,
                              name |-> item.name]
         /\ (Totals(shipment.items) = <<12000, 8000>> /\ m_abs = 14000)
               => Amounts(m_out.items) = <<8400, 5600>>

\* The scenario of C20, one of the two items bought twice.
C20_Witness ==
    /\ Allocated
    /\ Totals(m_shipments[m_out.match.matched_shipment].items) = <<12000, 8000>>
    /\ m_abs = 14000
    /\ Amounts(m_out.items) = <<8400, 5600>>
    /\ m_out.items[1].qty = 2 /\ m_out.items[1].name.prefix = 2
    /\ m_out.items[2].qty = 1 /\ m_out.items[2].name.prefix = 0
-----------------------------------------------------------------------------
(* Properties of the records main writes (Spec), continued.                 *)

\* The split amounts of record t all lie on the side of its direction.
SplitsFollowDirection(t) ==
    \A i \in 1..Len(t.splits) :
      IF t.is_refund THEN t.splits[i].amount >= 0 ELSE t.splits[i].amount <= 0

\* C21: every split main emits follows the sign convention of its charge: a
\* purchase (outflow) has only split amounts <= 0 and a refund (inflow) only
\* split amounts >= 0, for itemized, grocery and tip records alike.
C21_SplitSigns ==
    \A t \in SeqRange(cache) :
      /\ t.is_refund = (t.amount > 0)
      /\ SplitsFollowDirection(t)

\* A run has written an itemized refund next to a tip or a grocery record.
C21_Witness ==
    /\ pc = "done" /\ Len(cache) = 2
    /\ \E t \in SeqRange(cache) :
          /\ t.is_refund /\ ~t.is_grocery /\ Len(t.splits) >= 2
          /\ \A i \in 1..Len(t.splits) : t.splits[i].amount > 0
    /\ \E t \in SeqRange(cache) :
          /\ Len(t.splits) = 1
          /\ t.splits[1].category \in {"Groceries", "Delivery Fee"}
          /\ t.splits[1].amount # 0

-----------------------------------------------------------------------------
(* Properties of the sync engine (SpecSync), continued.                     *)

\* The subtransactions sent for txn sum to its amount in milliunits, every
\* one but the last being the split amount in milliunits.
SumsToParent(txn, subs) ==
    /\ Len(subs) = Len(txn.splits)
    /\ SumSeq(Amounts(subs)) = txn.amount * MilliPerCent
    /\ \A i \in 1..(Len(subs) - 1) :
          subs[i].amount = txn.splits[i].amount * MilliPerCent

\* C22: for every transaction with at least one split, the subtransaction
\* amounts sync_transactions sends sum exactly to the parent amount in
\* milliunits, the rounding difference going to the last subtransaction, in
\* create requests and in update requests.
C22_SubtransactionsSumToParent ==
    /\ \A i \in 1..Len(to_create) :
          /\ to_create[i].ynab_txn.amount = to_create[i].txn.amount * MilliPerCent
          /\ to_create[i].txn.splits # <<>> =>
                SumsToParent(to_create[i].txn,
                             to_create[i].ynab_txn.subtransactions)
    /\ \A i \in 1..Len(to_update) :
          /\ to_update[i].txn.splits # <<>>
          /\ SumsToParent(to_update[i].txn, to_update[i].subtransactions)
    /\ \A i \in 1..Len(y_ledger) :
          (/\ y_ledger[i].import_id \in s_trace.requested
           /\ y_ledger[i].import_id \notin s_trace.written
           /\ s_pc = "create"
           /\ y_ledger[i].subtransactions # <<>>) =>
             SumSeq(Amounts(y_ledger[i].subtransactions)) = y_ledger[i].amount

\* One run queues a create and an update whose splits are off by a cent.
C22_Witness ==
    /\ s_pc = "create" /\ ~dry_run
    /\ \E i \in 1..Len(to_create) :
          /\ Len(to_create[i].txn.splits) = 3
          /\ SumSeq(Amounts(to_create[i].txn.splits)) # to_create[i].txn.amount
          /\ \E j \in 1..Len(y_ledger) :
                y_ledger[j].subtransactions = to_create[i].ynab_txn.subtransactions
    /\ \E i \in 1..Len(to_update) :
          /\ Len(to_update[i].txn.splits) = 3
          /\ SumSeq(Amounts(to_update[i].txn.splits)) # to_update[i].txn.amount
          /\ \E j \in 1..Len(y_ledger) :
                y_ledger[j].subtransactions = to_update[i].subtransactions

-----------------------------------------------------------------------------
(* Properties of the transaction cache across runs (Spec).                  *)

\* The import ids of a sequence of records are pairwise different.
UniqueImportIds(txns) ==
    \A i, j \in 1..Len(txns) : i # j => txns[i].import_id # txns[j].import_id

\* C23 (as claimed): no two transactions of the transaction cache share an
\* import id, in memory and on disk, whatever the input rows are.
C23_UniqueImportIds ==
    /\ UniqueImportIds(cache)
    /\ UniqueImportIds(cache_file.transactions)

\* C23 (what holds): a run adds no record under an import id of the cache it
\* loaded, and two records under one import id come from two rows of one
\* input with the same order id, amount and direction.
C23_NoneAddedTwiceAcrossRuns ==
    /\ \A t \in SeqRange(AddedRecords) \cup SeqRange(pending_txns) :
          t.import_id \notin existing_ids
    /\ UniqueImportIds(cache) \/
          \E i, j \in 1..Len(rows) :
            /\ i # j /\ ChargeRow(rows[i]) /\ ChargeRow(rows[j])
            /\ rows[i].memo.order = rows[j].memo.order
            /\ parse_amount(rows[i]).amount = parse_amount(rows[j]).amount


\* Every record the current run has added is in the cache file on disk.
AddedRecordsOnDisk ==
    /\ cache_file.exists
    /\ \A t \in SeqRange(AddedRecords) : t \in SeqRange(cache_file.transactions)

\* C24 (as claimed): at the end of a non-batch run every record pass 1 has
\* produced (tip, grocery, NEEDS ITEMIZATION, NO SHIPMENT MATCH) is in the
\* cache file on disk, also when no charge needed item categorization.
C24_Pass1RecordsSaved ==
    (pc = "done" /\ ~batch /\ AddedRecords # <<>>) => AddedRecordsOnDisk

\* C24 (what holds): the records are on disk at the end of a run in which
\* some charge needed item categorization.
C24_SavedWhenSomethingPending ==
    (pc = "done" /\ pending_txns # <<>>) =>
       /\ AddedRecordsOnDisk
       /\ cache_file.transactions = cache

-----------------------------------------------------------------------------
(* Properties of the email pipeline (SpecEmail), continued.                 *)

\* The ledger transactions the pipeline has created for an order.
CreatedFor(order) ==
    {k \in 1..Len(e_ledger) :
        e_ledger[k].creator # 0 /\ e_ledger[k].order = order}

\* C25 (as claimed): the pipeline creates at most one ledger transaction for
\* an order id, under any interleaving of the invocations.
C25_OneTransactionPerOrder ==
    \A e \in Emails : Cardinality(CreatedFor(e.order)) <= 1

\* C25 (as claimed, the case it names): two invocations that hold the claims
\* of two different emails of one order never both create a transaction.
C25_NoCreateByTwoClaimants ==
    \A i, j \in Invocations :
      (/\ i # j
       /\ e_inv[i].claim = "won" /\ e_inv[j].claim = "won"
       /\ e_inv[i].email.id # e_inv[j].email.id
       /\ e_inv[i].email.order = e_inv[j].email.order) =>
         ~(\E k, l \in 1..Len(e_ledger) :
              /\ k # l
              /\ e_ledger[k].creator = i /\ e_ledger[l].creator = j)

\* C25 (what holds): an invocation creates at most one transaction, and none
\* when its memo check found a transaction of the order.
C25_OneCreatePerInvocation ==
    \A i \in Invocations :
      /\ Cardinality({k \in 1..Len(e_ledger) : e_ledger[k].creator = i}) <= 1
      /\ e_inv[i].status = "skipped" /\ e_inv[i].claim \in {"won", "none"} =>
            \A k \in 1..Len(e_ledger) : e_ledger[k].creator # i

-----------------------------------------------------------------------------
(* Properties of the correction replies (SpecOrder).                        *)

\* Two lists of subtransactions with the same amounts and memos.
SameAmountsAndMemos(subs1, subs2) ==
    /\ Len(subs1) = Len(subs2)
    /\ \A i \in 1..Len(subs1) :
          subs1[i].amount = subs2[i].amount /\ subs1[i].memo = subs2[i].memo

\* Ledger transaction t is the one written for order number j, with at most
\* the categories of corrected subtransactions changed.
TransactionOf(t, j) ==
    /\ t.order_no = j
    /\ t.amount = 0 - o_runs[j].total
    /\ SameAmountsAndMemos(t.subtransactions, o_runs[j].written)
    /\ \A i \in 1..Len(t.subtransactions) :
          t.subtransactions[i].category # o_runs[j].written[i].category
            => t.subtransactions[i].corrected

\* C26 (as claimed): apply_category_corrections never loses the transaction:
\* whatever step fails, the ledger holds a transaction for the order with the
\* total, the subtransaction amounts and the memos that were written.
C26_TransactionNeverLost ==
    \A j \in 1..Len(o_runs) :
      o_runs[j].written # <<>> =>
        \E k \in 1..Len(o_ledger) : TransactionOf(o_ledger[k], j)

\* C26 (what holds): a transaction the ledger holds after any number of
\* corrections has the total, amounts and memos written for its order, and
\* there is at most one per order.
C26_KeptTransactionsUnchanged ==
    /\ \A k \in 1..Len(o_ledger) : TransactionOf(o_ledger[k], o_ledger[k].order_no)
    /\ \A k, l \in 1..Len(o_ledger) :
          o_ledger[k].order_no = o_ledger[l].order_no => k = l

-----------------------------------------------------------------------------
(* Properties of the amounts categorize_order assigns (SpecAmounts).        *)

\* Some item of the run has a zero or missing price, or the prices sum to
\* nothing: the total is distributed evenly.
EvenlyDistributed(r) ==
    \/ \E i \in 1..Len(r.item_totals) : r.item_totals[i] <= 0
    \/ SumSeq(r.item_totals) <= 0

\* C30: for an order with at least one item, categorize_order returns one
\* assignment per item whose amounts sum exactly to order.total; every
\* assignment but the last has its share rounded to the cent (proportional
\* to the item prices, or even when a price is zero or missing), the last
\* takes the remainder.
C30_AssignmentsSumToTotal ==
    \A j \in 1..Len(o_runs) :
      LET r == o_runs[j]
          n == Len(r.amounts)
      IN r.item_categories # <<>> =>
           /\ n = Len(r.item_categories) /\ n >= 1
           /\ SumSeq(r.amounts) = r.total
           /\ \A i \in 1..(n - 1) :
                 r.amounts[i] = IF EvenlyDistributed(r)
                                THEN quantize(r.total, n)
                                ELSE quantize(r.item_totals[i] * r.total,
                                              SumSeq(r.item_totals))

\* Three items of 3.33 in an order of 10.00, two of them known to the cache
\* and one categorized by the classifier: two shares of 3.33 and a last
\* assignment that takes 3.34.
C30_Witness ==
    /\ Len(o_runs) = 1
    /\ o_runs[1].item_totals = <<333, 333, 333>>
    /\ o_runs[1].amounts = <<333, 333, 334>>
    /\ o_runs[1].total = 1000
    /\ Len(o_runs[1].asked) = 1
    /\ o_runs[1].item_categories[3].category = "Toys"
    /\ o_runs[1].written # <<>>


\* Invocation i claimed its order email and then ended with an error.
FailedAfterClaim(i) ==
    /\ ~e_inv[i].email.correction
    /\ e_inv[i].claim = "won"
    /\ e_inv[i].pc = "done" /\ e_inv[i].status = "error"

\* C27 (as claimed): an order email that was claimed and whose processing
\* then failed is not left marked as processed: a later invocation is not
\* turned away by the check of processed_emails.
C27_FailedEmailStaysEligible ==
    \A i \in Invocations :
      FailedAfterClaim(i) =>
        /\ e_inv[i].email.id \notin processed_emails
        /\ \A j \in Handling(e_inv[i].email.id) \ {i} :
              e_inv[j].status # "already_processed"

\* C27 (what holds): an email is marked exactly when an invocation has
\* claimed it, so a failure before the claim (the email does not parse, the
\* store is down) leaves it eligible.
C27_FailureBeforeClaimStaysEligible ==
    \A i \in Invocations :
      (/\ e_inv[i].email.id # ""
       /\ e_inv[i].pc = "done" /\ e_inv[i].status = "error"
       /\ Claimants(e_inv[i].email.id) = {}) =>
         e_inv[i].email.id \notin processed_emails

\* A cached transaction that was queued for categorization and has no
\* splits.
Unsplit(t) == t.items_with_amounts # <<>> /\ t.splits = <<>>

\* C28: in batch mode every transaction saved to the cache without splits
\* eventually receives them: once a later run over the same input has ended
\* and no batch is left to retrieve, no transaction of the cache file is
\* without its splits.
C28_UnsplitEventuallyFilled ==
    (run >= 2 /\ pc \in {"idle", "done"} /\ pending_batches = <<>>)
        => \A i \in 1..Len(cache_file.transactions) :
              ~Unsplit(cache_file.transactions[i])

\* What holds instead: a transaction of the cache file without splits gets
\* them only in a step of retrieve_batch_results for a tracked batch that
\* names its import id; no run of main fills it in.
C28_OnlyRetrievalFills ==
    [][\A i \in 1..Len(cache_file.transactions) :
          (/\ i <= Len(cache_file'.transactions)
           /\ Unsplit(cache_file.transactions[i])
           /\ ~Unsplit(cache_file'.transactions[i]))
          => \E b \in 1..Len(pending_batches) :
                /\ pending_batches[b] \notin SeqRange(pending_batches')
                /\ \E k \in 1..Len(pending_batches[b].items) :
                      pending_batches[b].items[k].import_id
                          = cache_file.transactions[i].import_id]_vars

\* C29: sync_transactions with dry_run=True makes no change: in no step of
\* a dry run does the ledger change, and the cache file on disk, its synced
\* set included, stays as it was before the call.
C29_DryRunChangesNothing ==
    [][dry_run' => (y_ledger' = y_ledger /\ cache_file' = cache_file)]_vars

\* What holds instead: a dry run sends no request and leaves the ledger and
\* the cached transactions alone, but it saves the cache file, and the
\* synced set it saves has grown by the import ids the first pass found in
\* the ledger already.
C29_DryRunSendsNoRequest ==
    [][dry_run' =>
          /\ y_ledger' = y_ledger
          /\ s_trace'.requested = {} /\ s_trace'.posts = 0
          /\ cache_file'.transactions = cache_file.transactions
          /\ cache_file.synced \subseteq cache_file'.synced
          /\ cache_file'.synced \ cache_file.synced
                \subseteq DOMAIN get_existing_transactions(y_ledger)]_vars

====
